---- MODULE Spec2Model ----
(***************************************************************************)
(* Model of the schedule submission engine of EnvioTurnosSenior:           *)
(*   - EscalaAPIClient (enviar_programacao, _tentar_envio, processar_lote) *)
(*   - the console run driver (processar_escalas and its retry loop,       *)
(*     processar_escalas_com_retry_token, main)                            *)
(*   - the web dispatch and retry path (processar_escalas_async,           *)
(*     retry_errors.run_retry)                                             *)
(* Three specifications share the per-attempt logic (Desfecho):            *)
(*   SpecLote   one processar_lote batch, task by task, under the          *)
(*              semaphore                                                  *)
(*   SpecEnvio  one _tentar_envio call against a scripted remote endpoint  *)
(*   Spec       a whole console run: first pass, retry cycles, merge, save *)
(* Times are in milliseconds.                                              *)
(***************************************************************************)
EXTENDS Integers, Sequences, FiniteSets, TLC

\* ------------------------------------------------------------------ bounds
MaxLote == 3          \* records in one batch of SpecLote
MaxConcorrencia == 2  \* largest concurrency limit tried in SpecLote
MaxEntrada == 2       \* records in the input file of a run (Spec)
MaxCiclos == 2        \* retry cycles the user accepts before declining
MaxExcesso == 2       \* how far outside 1..50 a requested concurrency may be
MaxLinhas == 2        \* data rows in the grid file of a conversion
MaxConversoes == 2    \* conversions one process runs
MaxDatas == 2         \* columns after the third in the header of a grid file
MaxPedidos == 2       \* requests to /api/process and /api/retry

\* ------------------------------------------------------- program constants
max_retries == 3
DelayBaseErro == 500
DelayBaseTimeout == 2000
ConcorrenciaMin == 1
ConcorrenciaMax == 50
StatusSucesso_So200 == {200}

StatusSucesso == {200, 201, 204}
SemRetry == 0 - 1     \* the outcome dict has no numero_retry key yet

\* ------------------------------------------------------------------- data
Pow2(n) == 2 ^ n

Range(s) == {s[i] : i \in DOMAIN s}

SeqsUpTo(S, n) == UNION {[1..k -> S] : k \in 0..n}

\* A date is its textual form: "br" is DD/MM/YYYY, "iso" is YYYY-MM-DD.
Dias == {"d1"}
Datas == [fmt : {"br", "iso"}, dia : Dias]

\* data_original -> data: a slash date of three parts is rewritten to ISO,
\* anything else is kept as it is.
DataISO(d) == IF d.fmt = "br" THEN [fmt |-> "iso", dia |-> d.dia] ELSE d

Ids == <<"303-1-1", "303-1-2", "303-1-3", "303-1-4", "303-1-5">>
IdsRun == {Ids[1], Ids[2]}

Codigos == {"8", "FR"}
\* int(codigo_horario) succeeds
CodigoInteiro(c) == c \in {"8"}

Registro(id, d, c) == [id_colaborador |-> id, data |-> d, codigo_horario |-> c]

\* What the remote does with one request: an HTTP status, or an exception
\* raised by session.put.
Http(s) == [status |-> s, exc |-> "nenhuma"]
Falha(c) == [status |-> 0, exc |-> c]
SemResposta == Http(0)
Respostas == {Http(200), Http(201), Http(204), Http(401), Http(500),
              Falha("TimeoutError"), Falha("ServerTimeoutError"),
              Falha("ClientConnectorError")}
\* One answer for each kind of outcome (success, HTTP error, timeout,
\* exception); the other failure classes are taken by the same except clauses
\* as one of these.
RespostasBasicas == {Http(200), Http(401), Http(500), Falha("TimeoutError")}

\* ------------------------------------------------------------ _tentar_envio
ExcecoesTimeout == {"TimeoutError", "ServerTimeoutError"}
\* classes derived from Exception (TokenExpiradoException is declared so)
SubclassesDeException == {"TimeoutError", "ServerTimeoutError", "ClientConnectorError",
                          "ValueError", "TokenExpiradoException"}

\* Which except clause of the attempt's try statement takes an exception.
CaughtBy_TudoTimeout(exc) == "timeout"

CaughtBy(exc) ==
    IF exc \in ExcecoesTimeout THEN "timeout"
    ELSE IF exc \in SubclassesDeException THEN "generico"
    ELSE "propaga"

\* The attempt reaches session.put only if the payload could be built.
FazRequisicao(rec) == CodigoInteiro(rec.codigo_horario)

\* The exception the body of the try raises, if any.
ExcecaoDoCorpo(rec, resp) ==
    IF ~FazRequisicao(rec) THEN "ValueError"
    ELSE IF resp.exc # "nenhuma" THEN resp.exc
    ELSE IF resp.status = 401 THEN "TokenExpiradoException"
    ELSE "nenhuma"

ResultadoHttp(rec, status, t) ==
    [id_colaborador |-> rec.id_colaborador, data |-> DataISO(rec.data),
     codigo_horario |-> rec.codigo_horario, status_code |-> status,
     status |-> IF status \in StatusSucesso THEN "sucesso" ELSE "erro",
     erro |-> "", tentativas |-> t, numero_retry |-> SemRetry]

ResultadoTimeout(rec, t) ==
    [id_colaborador |-> rec.id_colaborador, data |-> rec.data,
     codigo_horario |-> rec.codigo_horario, status_code |-> 0,
     status |-> "timeout", erro |-> "Timeout", tentativas |-> t,
     numero_retry |-> SemRetry]

ResultadoExcecao(rec, exc, t) ==
    [id_colaborador |-> rec.id_colaborador, data |-> rec.data,
     codigo_horario |-> rec.codigo_horario, status_code |-> 0,
     status |-> "erro", erro |-> exc, tentativas |-> t,
     numero_retry |-> SemRetry]

ResNulo == [id_colaborador |-> "", data |-> [fmt |-> "iso", dia |-> ""],
            codigo_horario |-> "", status_code |-> 0, status |-> "", erro |-> "",
            tentativas |-> 0, numero_retry |-> SemRetry]

DelayErro_SemDobrar(t) == DelayBaseErro

DelayErro(t) == DelayBaseErro * Pow2(t - 1)

DelayTimeout_ComoErro(t) == DelayBaseErro * Pow2(t - 1)

DelayTimeout(t) == DelayBaseTimeout * Pow2(t - 1)

Ret(r) == [acao |-> "return", res |-> r, delay |-> 0, exc |-> "nenhuma"]
Sleep(d) == [acao |-> "sleep", res |-> ResNulo, delay |-> d, exc |-> "nenhuma"]
Raise(e) == [acao |-> "raise", res |-> ResNulo, delay |-> 0, exc |-> e]

\* One iteration of the for loop of _tentar_envio: attempt number t of record
\* rec, the remote answering resp (ignored when no request is made).
Desfecho(rec, resp, t) ==
    LET exc == ExcecaoDoCorpo(rec, resp) IN
    IF exc = "nenhuma"
    THEN IF resp.status \in StatusSucesso THEN Ret(ResultadoHttp(rec, resp.status, t))
         ELSE IF t < max_retries THEN Sleep(DelayErro(t))
         ELSE Ret(ResultadoHttp(rec, resp.status, t))
    ELSE IF CaughtBy(exc) = "timeout"
    THEN IF t < max_retries THEN Sleep(DelayTimeout(t))
         ELSE Ret(ResultadoTimeout(rec, t))
    ELSE IF CaughtBy(exc) = "generico"
    THEN IF t < max_retries THEN Sleep(DelayErro(t))
         ELSE Ret(ResultadoExcecao(rec, exc, t))
    ELSE Raise(exc)

\* The outcome the code has after its loop ("nunca deveria chegar aqui").
ResultadoFallback(rec) ==
    [id_colaborador |-> rec.id_colaborador, data |-> rec.data,
     codigo_horario |-> rec.codigo_horario, status_code |-> 0,
     status |-> "erro", erro |-> "Falha desconhecida", tentativas |-> max_retries,
     numero_retry |-> SemRetry]

\* A scripted remote endpoint: its answer to the t-th request of a record.
Roteiros == [1..max_retries -> Respostas]

\* The whole for loop of _tentar_envio against a scripted endpoint: it runs
\* until the first iteration that returns or raises; esperas are the delays
\* slept on the way, iteracoes the number of iterations run.
tentar_envio(rec, respostas) ==
    LET fins == {t \in 1..max_retries : Desfecho(rec, respostas[t], t).acao # "sleep"} IN
    IF fins = {}
    THEN [tipo |-> "ret", res |-> ResultadoFallback(rec), exc |-> "nenhuma",
          esperas |-> [t \in 1..max_retries |-> Desfecho(rec, respostas[t], t).delay],
          iteracoes |-> max_retries]
    ELSE LET fim == CHOOSE t \in fins : \A u \in fins : t <= u
             d == Desfecho(rec, respostas[fim], fim)
         IN [tipo |-> IF d.acao = "return" THEN "ret" ELSE "raise",
             res |-> d.res, exc |-> d.exc,
             esperas |-> [t \in 1..(fim - 1) |-> Desfecho(rec, respostas[t], t).delay],
             iteracoes |-> fim]

\* ---------------------------------------------------------------- variables
VARIABLES
    \* SpecLote: one processar_lote call
    colaboradores,      \* the batch's input list
    max_concurrent,     \* the concurrency limit
    semaphore,          \* free slots of asyncio.Semaphore(max_concurrent)
    pc,                 \* per task: "fila", "req", "dorme", "fim"
    tentativa,          \* per task: loop variable of _tentar_envio
    ultimo,             \* per task: what ended its last attempt
    espera,             \* per task: the delay it sleeps (0 when not asleep)
    retorno,            \* per task: what enviar_programacao returned or raised
    lote_pc,            \* "rodando" or "retornado"
    resultados_finais,  \* what processar_lote returned
    \* SpecEnvio: one _tentar_envio call
    envio_rec,          \* the record submitted
    roteiro,            \* the scripted endpoint
    envio_pc,           \* "chamando" or "retornou"
    envio_ret,          \* what the call returned, with the delays it slept
    \* Spec: one run of the console driver
    fase,               \* "inicio", "retomada", "menu", "fim", "fatal"
    motivo,             \* the stated reason of a fatal stop
    entrada,            \* the records read from the input file (one date
                        \* format per file)
    token,              \* generation of the bearer credential in use
    resultados,         \* the cumulative result list
    arquivo_resultado,  \* the rows of the persisted report
    numero_ciclo_retry, \* retry cycles run so far
    colaboradores_retry,\* the records dispatched by the last batch
    origem,             \* their positions in resultados
    resultados_retry,   \* the outcomes the last batch returned (tagged)
    viu401              \* a first call of the first pass was answered 401

varsLote == <<colaboradores, max_concurrent, semaphore, pc, tentativa, ultimo,
              espera, retorno, lote_pc, resultados_finais>>

varsEnvio == <<envio_rec, roteiro, envio_pc, envio_ret>>

varsRun == <<fase, motivo, entrada, token, resultados, arquivo_resultado,
             numero_ciclo_retry, colaboradores_retry, origem, resultados_retry,
             viu401>>

VARIABLES
    \* SpecWeb: the web application's /api/process and /api/retry
    web_fase,           \* "pronto", "sem_dados", "resultado"
    web_entrada,        \* the records of app_state['current_file']
    web_ordem,          \* the order in which the tasks of a batch complete
    results_file,       \* the rows of app_state['results_file']
    web_novos,          \* what the last processar_escalas_async returned
    web_retries,        \* /api/retry runs that dispatched a batch
    web_resposta        \* HTTP status of the last request's response

varsWeb == <<web_fase, web_entrada, web_ordem, results_file, web_novos,
             web_retries, web_resposta>>

VARIABLES
    \* SpecConcorrencia: one request for a dispatch at one entry point
    conc_ponto,         \* "console", "process" or "retry"
    conc_pedido,        \* the concurrency asked for
    conc_pc,            \* "pedido", "rejeitado", "despachando", "falhou"
    conc_limite         \* the limit handed to asyncio.Semaphore

varsConc == <<conc_ponto, conc_pedido, conc_pc, conc_limite>>

VARIABLES
    \* SpecFormato: one call of a format detector
    fmt_header,         \* the columns of the file's first line
    fmt_detector,       \* "console" or "web": whose detectar_formato_csv
    fmt_pc,             \* "chamando" or "retornou"
    fmt_formato         \* what the detector returned

varsFmt == <<fmt_header, fmt_detector, fmt_pc, fmt_formato>>

VARIABLES
    \* SpecConversao, SpecCache: runs of convert_dados_to_senior in one process
    horarios_cache,     \* the module global _horarios_cache
    arquivo_horarios,   \* horarios.csv on disk
    conv_entrada,       \* the grid file of the last run
    conv_disco,         \* what horarios.csv held when the last run started
    conv_df,            \* the table the last run worked from
    conv_leituras,      \* how often the last run read horarios.csv
    conv_saida,         \* the rows the last run wrote
    conv_stats,         \* the counters of the last run
    conv_retorno,       \* what the last run returned
    conv_runs           \* runs so far in this process

varsConv == <<horarios_cache, arquivo_horarios, conv_entrada, conv_disco, conv_df,
              conv_leituras, conv_saida, conv_stats, conv_retorno, conv_runs>>

VARIABLES
    \* SpecPayload: the identity numbers of one remote payload
    pay_id,             \* id_colaborador of the record
    pay_csv,            \* its numero_empresa, tipo_colaborador, numero_cadastro
    pay_pc,             \* "montando" or "montado"
    pay_payload         \* numeroEmpresa, tipoColaborador, numeroCadastro sent

varsPay == <<pay_id, pay_csv, pay_pc, pay_payload>>

VARIABLES
    \* SpecServidor: concurrent requests to /api/process and /api/retry
    app_state,          \* app_state: 'processing' and what 'results_file' holds
    pedidos             \* per request: endpoint, max_concurrent, position, HTTP status

varsSrv == <<app_state, pedidos>>

varsResto == <<varsWeb, varsConc, varsFmt, varsConv, varsPay, varsSrv>>

\* what the steps of the web application leave alone
foraWeb ==
    <<varsLote, varsEnvio, varsRun, varsConc, varsFmt, varsConv, varsPay, varsSrv>>
foraConc ==
    <<varsLote, varsEnvio, varsRun, varsWeb, varsFmt, varsConv, varsPay, varsSrv>>
foraFmt ==
    <<varsLote, varsEnvio, varsRun, varsWeb, varsConc, varsConv, varsPay, varsSrv>>
foraConv ==
    <<varsLote, varsEnvio, varsRun, varsWeb, varsConc, varsFmt, varsPay, varsSrv>>
foraPay ==
    <<varsLote, varsEnvio, varsRun, varsWeb, varsConc, varsFmt, varsConv, varsSrv>>
foraSrv ==
    <<varsLote, varsEnvio, varsRun, varsWeb, varsConc, varsFmt, varsConv, varsPay>>

vars == <<varsLote, varsEnvio, varsRun, varsResto>>

RegNulo == [id_colaborador |-> "", data |-> [fmt |-> "iso", dia |-> ""],
            codigo_horario |-> ""]

\* The parts of the state a specification does not use stay as they are here.
LoteParado ==
    /\ colaboradores = << >> /\ max_concurrent = 0 /\ semaphore = 0
    /\ pc = << >> /\ tentativa = << >> /\ ultimo = << >> /\ espera = << >>
    /\ retorno = << >> /\ lote_pc = "parado" /\ resultados_finais = << >>

EnvioParado ==
    /\ envio_rec = RegNulo /\ roteiro = << >> /\ envio_pc = "parado"
    /\ envio_ret = << >>

RunParado ==
    /\ fase = "parado" /\ motivo = "" /\ entrada = << >> /\ token = 0
    /\ resultados = << >> /\ arquivo_resultado = << >>
    /\ numero_ciclo_retry = 0 /\ colaboradores_retry = << >> /\ origem = << >>
    /\ resultados_retry = << >> /\ viu401 = FALSE

WebParado ==
    /\ web_fase = "parado" /\ web_entrada = << >> /\ web_ordem = "ida"
    /\ results_file = << >> /\ web_novos = << >> /\ web_retries = 0
    /\ web_resposta = 0

ConcParado ==
    /\ conc_ponto = "parado" /\ conc_pedido = 0 /\ conc_pc = "parado"
    /\ conc_limite = 0

FmtParado ==
    /\ fmt_header = << >> /\ fmt_detector = "parado" /\ fmt_pc = "parado"
    /\ fmt_formato = ""

\* Python's None for a table; a file of horarios.csv; no grid file; no return
DfNone == [nulo |-> TRUE, linhas |-> << >>]
ArquivoAusente == [estado |-> "ausente", linhas |-> << >>]
GridAusente == [existe |-> FALSE, datas |-> << >>, linhas |-> << >>]
RetornoNenhum == [feito |-> FALSE, sucesso |-> FALSE, total |-> 0]
SemStats == << >>

ConvParado ==
    /\ horarios_cache = DfNone /\ arquivo_horarios = ArquivoAusente
    /\ conv_entrada = GridAusente /\ conv_disco = ArquivoAusente /\ conv_df = DfNone
    /\ conv_leituras = 0 /\ conv_saida = << >> /\ conv_stats = SemStats
    /\ conv_retorno = RetornoNenhum /\ conv_runs = 0

TresNumeros(e, t, c) ==
    [numero_empresa |-> e, tipo_colaborador |-> t, numero_cadastro |-> c]

PayParado ==
    /\ pay_id = "" /\ pay_csv = TresNumeros("", "", "") /\ pay_pc = "parado"
    /\ pay_payload = TresNumeros(0, 0, 0)

SrvParado ==
    /\ app_state = [processing |-> FALSE, results_file |-> "nenhum"]
    /\ pedidos = << >>

RestoParado ==
    WebParado /\ ConcParado /\ FmtParado /\ ConvParado /\ PayParado /\ SrvParado

Tarefas == DOMAIN colaboradores

SemRetorno == [tipo |-> "nada", res |-> ResNulo, exc |-> "nenhuma"]

\* ------------------------------------------------------------ processar_lote
\* n records with distinct identifiers; the first may carry a schedule code
\* that is not a number.
RegistrosLote(n) ==
    {[i \in 1..n |-> Registro(Ids[i], [fmt |-> "br", dia |-> "d1"],
                              IF i = 1 THEN c ELSE "8")] : c \in Codigos}

InitLote ==
    /\ \E n \in 1..MaxLote : colaboradores \in RegistrosLote(n)
    /\ max_concurrent \in 1..MaxConcorrencia
    /\ semaphore = max_concurrent
    /\ pc = [i \in DOMAIN colaboradores |-> "fila"]
    /\ tentativa = [i \in DOMAIN colaboradores |-> 0]
    /\ ultimo = [i \in DOMAIN colaboradores |-> SemResposta]
    /\ espera = [i \in DOMAIN colaboradores |-> 0]
    /\ retorno = [i \in DOMAIN colaboradores |-> SemRetorno]
    /\ lote_pc = "rodando"
    /\ resultados_finais = << >>
    /\ EnvioParado /\ RunParado /\ RestoParado

\* semaphore.release() in the finally clause of enviar_programacao
Liberar_Nunca(slots) == slots

Liberar(slots) == slots + 1

\* The task's state once attempt t has ended with resp; the slot is released
\* by the finally clause of enviar_programacao when _tentar_envio returns or
\* raises.
Resolver(i, resp, t, slots) ==
    LET d == Desfecho(colaboradores[i], resp, t) IN
    /\ tentativa' = [tentativa EXCEPT ![i] = t]
    /\ ultimo' = [ultimo EXCEPT ![i] = IF FazRequisicao(colaboradores[i]) THEN resp
                                       ELSE Falha("ValueError")]
    /\ IF d.acao = "sleep"
       THEN /\ pc' = [pc EXCEPT ![i] = "dorme"]
            /\ espera' = [espera EXCEPT ![i] = d.delay]
            /\ retorno' = retorno
            /\ semaphore' = slots
       ELSE /\ pc' = [pc EXCEPT ![i] = "fim"]
            /\ espera' = [espera EXCEPT ![i] = 0]
            /\ retorno' = [retorno EXCEPT ![i] =
                             IF d.acao = "return"
                             THEN [tipo |-> "ret", res |-> d.res, exc |-> "nenhuma"]
                             ELSE [tipo |-> "raise", res |-> ResNulo, exc |-> d.exc]]
            /\ semaphore' = Liberar(slots)

\* Attempt t begins: the payload is built and, if that worked, the request
\* is sent.
Comecar(i, t, slots) ==
    IF FazRequisicao(colaboradores[i])
    THEN /\ pc' = [pc EXCEPT ![i] = "req"]
         /\ tentativa' = [tentativa EXCEPT ![i] = t]
         /\ espera' = [espera EXCEPT ![i] = 0]
         /\ semaphore' = slots
         /\ UNCHANGED <<ultimo, retorno>>
    ELSE Resolver(i, SemResposta, t, slots)

\* semaphore.acquire() goes through only while a slot is free.
PodeAdquirir_Sempre(slots) == TRUE

PodeAdquirir(slots) == slots > 0

\* enviar_programacao gets a slot and starts its first attempt.
Adquirir(i) ==
    /\ lote_pc = "rodando"
    /\ pc[i] = "fila"
    /\ PodeAdquirir(semaphore)
    /\ Comecar(i, 1, semaphore - 1)
    /\ UNCHANGED <<colaboradores, max_concurrent, lote_pc, resultados_finais>>
    /\ UNCHANGED <<varsEnvio, varsRun, varsResto>>

\* The remote answers (or session.put raises) for the outstanding request.
Responder(i, resp) ==
    /\ pc[i] = "req"
    /\ Resolver(i, resp, tentativa[i], semaphore)
    /\ UNCHANGED <<colaboradores, max_concurrent, lote_pc, resultados_finais>>
    /\ UNCHANGED <<varsEnvio, varsRun, varsResto>>

\* asyncio.sleep(delay) is over: next iteration of the loop.
Acordar(i) ==
    /\ pc[i] = "dorme"
    /\ Comecar(i, tentativa[i] + 1, semaphore)
    /\ UNCHANGED <<colaboradores, max_concurrent, lote_pc, resultados_finais>>
    /\ UNCHANGED <<varsEnvio, varsRun, varsResto>>

\* The outcome processar_lote makes of an exception gather handed back.
ResultadoGather(rec, exc) ==
    [id_colaborador |-> rec.id_colaborador, data |-> rec.data,
     codigo_horario |-> rec.codigo_horario, status_code |-> 0,
     status |-> "erro", erro |-> exc, tentativas |-> 0,
     numero_retry |-> SemRetry]

Gather_SoSucessos(regs, rets) ==
    SelectSeq([i \in DOMAIN regs |-> rets[i].res], LAMBDA r : r.status = "sucesso")

\* gather(*tasks, return_exceptions=True) and the loop over its results.
Gather(regs, rets) ==
    [i \in DOMAIN regs |->
        IF rets[i].tipo = "raise" THEN ResultadoGather(regs[i], rets[i].exc)
        ELSE rets[i].res]

\* All tasks are done: processar_lote builds resultados_finais and returns.
Concluir ==
    /\ lote_pc = "rodando"
    /\ \A i \in Tarefas : pc[i] = "fim"
    /\ resultados_finais' = Gather(colaboradores, retorno)
    /\ lote_pc' = "retornado"
    /\ UNCHANGED <<colaboradores, max_concurrent, semaphore, pc, tentativa,
                   ultimo, espera, retorno>>
    /\ UNCHANGED <<varsEnvio, varsRun, varsResto>>

NextLote ==
    \/ \E i \in Tarefas : Adquirir(i)
    \/ \E i \in Tarefas : \E resp \in RespostasBasicas : Responder(i, resp)
    \/ \E i \in Tarefas : Acordar(i)
    \/ Concluir

SpecLote == InitLote /\ [][NextLote]_vars

\* ------------------------------------------------- properties of the batch
EmVoo == {i \in Tarefas : pc[i] = "req"}
ComSlot == {i \in Tarefas : pc[i] \in {"req", "dorme"}}

\* C1: in a batch with concurrency limit L, at every instant at most L
\* records have a remote request outstanding (and the slots handed out plus
\* the free ones always add up to L).
C1_LimiteConcorrencia ==
    /\ Cardinality(EmVoo) <= max_concurrent
    /\ semaphore + Cardinality(ComSlot) = max_concurrent

\* C1 witness: more records than slots, every slot has a request in flight
\* and a record is still queued.
C1_Witness ==
    /\ Len(colaboradores) > max_concurrent
    /\ Cardinality(EmVoo) = max_concurrent
    /\ \E i \in Tarefas : pc[i] = "fila"

\* C2 (as claimed): a record answered 401 makes no further attempt and does
\* not sleep for a retry; it ends by raising the credential-expired
\* condition, and the batch never returns a per-record outcome for it.
C2_Token401Propaga ==
    \A i \in Tarefas :
        ultimo[i] = Http(401) =>
            /\ pc[i] = "fim"
            /\ retorno[i].tipo = "raise"
            /\ retorno[i].exc = "TokenExpiradoException"
            /\ lote_pc = "rodando"

\* C6: a batch returns exactly one outcome per input record, the i-th being
\* the outcome of the i-th record's own submission, whatever the siblings met.
C6_UmResultadoPorRegistro ==
    lote_pc = "retornado" =>
        /\ Len(resultados_finais) = Len(colaboradores)
        /\ \A i \in Tarefas :
              /\ resultados_finais[i].id_colaborador = colaboradores[i].id_colaborador
              /\ resultados_finais[i].status \in {"sucesso", "erro", "timeout"}
              /\ retorno[i].tipo = "ret" => resultados_finais[i] = retorno[i].res

\* C6 witness: a returned batch in which one record succeeded, one timed out
\* and one ended in an exception.
C6_Witness ==
    /\ lote_pc = "retornado"
    /\ \E i, j, k \in DOMAIN resultados_finais :
          /\ resultados_finais[i].status = "sucesso"
          /\ resultados_finais[j].status = "timeout"
          /\ resultados_finais[k].status = "erro" /\ resultados_finais[k].erro # ""

\* ------------------------------------------- one call against a scripted remote
RegistrosEnvio == [id_colaborador : {Ids[1]}, data : Datas, codigo_horario : Codigos]

InitEnvio ==
    /\ envio_rec \in RegistrosEnvio
    /\ roteiro \in Roteiros
    /\ envio_pc = "chamando"
    /\ envio_ret = << >>
    /\ LoteParado /\ RunParado /\ RestoParado

\* _tentar_envio runs to its return.
Enviar ==
    /\ envio_pc = "chamando"
    /\ envio_ret' = tentar_envio(envio_rec, roteiro)
    /\ envio_pc' = "retornou"
    /\ UNCHANGED <<envio_rec, roteiro, varsLote, varsRun, varsResto>>

NextEnvio == Enviar

SpecEnvio == InitEnvio /\ [][NextEnvio]_vars

\* The attempts the call made, and those that ended in a timeout class or in
\* a refused connection.
Feitas == 1..envio_ret.iteracoes
FimTimeout(t) == roteiro[t].exc \in ExcecoesTimeout
FimConexao(t) == roteiro[t].exc = "ClientConnectorError"

\* C8: a record whose endpoint always answers HTTP 500 is attempted exactly
\* max_retries = 3 times, sleeps 0.5 s after the first attempt and 1 s after
\* the second and nothing after the last, and ends with status error,
\* attempt count 3 and status code 500.
C8_Sempre500 ==
    (/\ envio_pc = "retornou"
     /\ FazRequisicao(envio_rec)
     /\ \A t \in 1..max_retries : roteiro[t] = Http(500))
    => /\ envio_ret.iteracoes = 3
       /\ envio_ret.esperas = <<500, 1000>>
       /\ envio_ret.tipo = "ret"
       /\ envio_ret.res.status = "erro"
       /\ envio_ret.res.tentativas = 3
       /\ envio_ret.res.status_code = 500

\* C8 witness: the call against the always-500 endpoint has returned.
C8_Witness ==
    /\ envio_pc = "retornou"
    /\ FazRequisicao(envio_rec)
    /\ \A t \in 1..max_retries : roteiro[t] = Http(500)
    /\ envio_ret.res.status_code = 500

\* C9 (as claimed): an attempt that ends in a request timeout or in a
\* connection failure is followed by a sleep of 2 * 2^(attempt-1) s when
\* attempts remain, and gives status timeout when it was the last one.
C9_TimeoutOuConexao ==
    (envio_pc = "retornou" /\ FazRequisicao(envio_rec)) =>
        \A t \in Feitas :
            (FimTimeout(t) \/ FimConexao(t)) =>
                IF t < max_retries
                THEN envio_ret.esperas[t] = 2000 * Pow2(t - 1)
                ELSE envio_ret.tipo = "ret" /\ envio_ret.res.status = "timeout"

\* C9 (amended): the 2 s doubling delay and the final status timeout follow an
\* attempt that ends in a timeout (asyncio.TimeoutError or
\* aiohttp.ServerTimeoutError); a connection failure that is not a timeout is
\* handled as an unexpected exception: 0.5 s doubling delay, final status
\* error.
C9_SoTimeout ==
    (envio_pc = "retornou" /\ FazRequisicao(envio_rec)) =>
        \A t \in Feitas :
            /\ FimTimeout(t) =>
                  IF t < max_retries
                  THEN envio_ret.esperas[t] = 2000 * Pow2(t - 1)
                  ELSE /\ envio_ret.tipo = "ret"
                       /\ envio_ret.res.status = "timeout"
                       /\ envio_ret.res.tentativas = max_retries
            /\ FimConexao(t) =>
                  IF t < max_retries
                  THEN envio_ret.esperas[t] = 500 * Pow2(t - 1)
                  ELSE /\ envio_ret.tipo = "ret"
                       /\ envio_ret.res.status = "erro"
                       /\ envio_ret.res.erro = "ClientConnectorError"

\* C9 witness: three timeouts in a row, slept 2 s and 4 s, outcome timeout.
C9_Witness ==
    /\ envio_pc = "retornou"
    /\ \A t \in 1..max_retries : FimTimeout(t)
    /\ envio_ret.esperas = <<2000, 4000>>
    /\ envio_ret.res.status = "timeout"

\* C15: the outcome of a call is a success exactly when a request was made
\* and the last answer was HTTP 200, 201 or 204; the first such answer ends
\* the call at once, with tentativas the number of that attempt and one sleep
\* for each attempt before it.
C15_SucessoSseAceito ==
    envio_pc = "retornou" =>
        LET n == envio_ret.iteracoes
            aceito(t) == /\ FazRequisicao(envio_rec)
                         /\ roteiro[t].exc = "nenhuma"
                         /\ roteiro[t].status \in {200, 201, 204}
        IN /\ envio_ret.tipo = "ret"
           /\ (envio_ret.res.status = "sucesso") <=> aceito(n)
           /\ \A t \in 1..max_retries :
                 (aceito(t) /\ \A u \in 1..(t - 1) : ~aceito(u)) =>
                     /\ n = t
                     /\ envio_ret.res.status = "sucesso"
                     /\ envio_ret.res.status_code = roteiro[t].status
                     /\ envio_ret.res.tentativas = t
                     /\ Len(envio_ret.esperas) = t - 1

\* C15 witness: a 500, then a 204 accepted on the second attempt although
\* the third answer would have been an error.
C15_Witness ==
    /\ envio_pc = "retornou"
    /\ FazRequisicao(envio_rec)
    /\ roteiro = <<Http(500), Http(204), Http(500)>>
    /\ envio_ret.res.status = "sucesso"
    /\ envio_ret.res.tentativas = 2

\* The exception attempt t met when it is none of the timeout classes and not
\* the 401 one: the payload could not be built, or the connection failed.
ExcecaoGenerica(t) ==
    IF ~FazRequisicao(envio_rec) THEN "ValueError"
    ELSE IF roteiro[t].exc \in SubclassesDeException \ ExcecoesTimeout
    THEN roteiro[t].exc
    ELSE "nenhuma"

\* C16: an attempt that raises such an exception is followed, while attempts
\* remain, by a sleep of 0.5 s doubled per attempt; when it is the last
\* attempt the outcome has status error, the attempt count and the
\* exception's text.
C16_ExcecaoGenerica ==
    envio_pc = "retornou" =>
        \A t \in Feitas :
            ExcecaoGenerica(t) # "nenhuma" =>
                IF t < max_retries
                THEN /\ envio_ret.iteracoes > t
                     /\ envio_ret.esperas[t] = 500 * Pow2(t - 1)
                ELSE /\ envio_ret.tipo = "ret"
                     /\ envio_ret.res.status = "erro"
                     /\ envio_ret.res.status_code = 0
                     /\ envio_ret.res.erro = ExcecaoGenerica(t)
                     /\ envio_ret.res.tentativas = max_retries

\* C16 witness: a schedule code that is not an integer; three attempts, sleeps
\* of 0.5 s and 1 s, outcome error with the ValueError.
C16_Witness ==
    /\ envio_pc = "retornou"
    /\ envio_rec.codigo_horario = "FR"
    /\ envio_ret.iteracoes = max_retries
    /\ envio_ret.esperas = <<500, 1000>>
    /\ envio_ret.res.status = "erro"
    /\ envio_ret.res.erro = "ValueError"

\* ------------------------------------------------------- the console run
RegistrosRun == [id_colaborador : IdsRun, data : Datas, codigo_horario : {"8"}]

\* What one enviar_programacao call can come to, over all the ways the remote
\* may answer its requests; viu401 tells whether its first call got a 401.
\* The run is checked against a remote that answers every attempt of one
\* send alike.
RoteirosRun == {[t \in 1..max_retries |-> r] : r \in RespostasBasicas}

EnviosPossiveis(rec) ==
    {LET e == tentar_envio(rec, r) IN
        [tipo |-> e.tipo, res |-> e.res, exc |-> e.exc,
         viu401 |-> FazRequisicao(rec) /\ r[1] = Http(401)] : r \in RoteirosRun}

\* the same sets for every record, computed once, as pairs <<rec, envio>>
TabelaEnvios ==
    UNION {{<<rec, e>> : e \in EnviosPossiveis(rec)} : rec \in RegistrosRun}
TabelaRetornos ==
    {<<p[1], [tipo |-> p[2].tipo, res |-> p[2].res, exc |-> p[2].exc]>> : p \in TabelaEnvios}

Da(tabela, rec) == {p[2] : p \in {q \in tabela : q[1] = rec}}

RECURSIVE Escolhas(_, _)
Escolhas(regs, tabela) ==
    IF regs = << >> THEN {<< >>}
    ELSE {<<e>> \o resto : e \in Da(tabela, Head(regs)),
                           resto \in Escolhas(Tail(regs), tabela)}

\* processar_lote as a whole: gather hands every exception back as a value,
\* so the call itself raises nothing.
processar_lote(regs, envios) ==
    [raised |-> "nenhuma", resultados |-> Gather(regs, envios)]

EhErro_SoStatusErro(r) == r.status = "erro"

\* the filter of erros in separar_sucessos_e_erros
EhErro(r) == r.status # "sucesso"

\* positions of the erros, in list order
RECURSIVE IndicesErros(_, _)
IndicesErros(rs, i) ==
    IF i > Len(rs) THEN << >>
    ELSE (IF EhErro(rs[i]) THEN <<i>> ELSE << >>) \o IndicesErros(rs, i + 1)

separar_sucessos_e_erros(rs) ==
    LET idx == IndicesErros(rs, 1) IN
    [sucessos |-> SelectSeq(rs, LAMBDA r : r.status = "sucesso"),
     erros |-> [k \in DOMAIN idx |-> rs[idx[k]]],
     indices |-> idx]

\* the record the retry loop rebuilds from a failed outcome
RegistroRetry(erro) ==
    [id_colaborador |-> erro.id_colaborador, data |-> erro.data,
     codigo_horario |-> erro.codigo_horario]

Marcar(rs, n) == [i \in DOMAIN rs |-> [rs[i] EXCEPT !.numero_retry = n]]

\* chave = f"{id_colaborador}_{data}"
Chave(r) == <<r.id_colaborador, r.data>>

Mesclar_SoNovos(rs, novos) == novos

\* novos_resultados_dict, then the loop that replaces the entries of resultados
Mesclar(rs, novos) ==
    [i \in DOMAIN rs |->
        LET js == {j \in DOMAIN novos : Chave(novos[j]) = Chave(rs[i])} IN
        IF js = {} THEN rs[i]
        ELSE novos[CHOOSE j \in js : \A k \in js : k <= j]]

\* salvar_resultados_csv: rows without numero_retry get 0, all rows written
salvar_resultados_csv(rs) ==
    [i \in DOMAIN rs |->
        IF rs[i].numero_retry = SemRetry THEN [rs[i] EXCEPT !.numero_retry = 0]
        ELSE rs[i]]

\* How far the steps before the first batch get: credentials, login, file
\* selection and conversion; each failure is a message and a return.
Ambientes == {"ok", "credenciais_ausentes", "autenticacao_falhou", "nenhum_csv",
              "conversao_falhou", "conversao_cancelada"}
MotivosFatais == (Ambientes \ {"ok"}) \cup
                 {"nenhum_colaborador", "reautenticacao_credenciais_ausentes",
                  "reautenticacao_falhou", "reautenticacao_excecao"}

InitRun ==
    /\ fase = "inicio"
    /\ motivo = ""
    /\ \E f \in {"br", "iso"} :
          entrada \in SeqsUpTo({r \in RegistrosRun : r.data.fmt = f}, MaxEntrada)
    /\ token = 0
    /\ resultados = << >>
    /\ arquivo_resultado = << >>
    /\ numero_ciclo_retry = 0
    /\ colaboradores_retry = << >>
    /\ origem = << >>
    /\ resultados_retry = << >>
    /\ viu401 = FALSE
    /\ LoteParado /\ EnvioParado /\ RestoParado

Parar(m) ==
    /\ fase' = "fatal"
    /\ motivo' = m
    /\ UNCHANGED <<entrada, token, resultados, arquivo_resultado,
                   numero_ciclo_retry, colaboradores_retry, origem,
                   resultados_retry, viu401>>

\* The except TokenExpiradoException clause of
\* processar_escalas_com_retry_token: authenticate again and call
\* processar_escalas with the new token; inside that second call the same
\* exception is taken by "except Exception as reauth_error".
Reautenticar ==
    IF fase = "retomada" THEN Parar("reautenticacao_excecao")
    ELSE \E r \in {"ok", "credenciais_ausentes", "falhou", "excecao"} :
            IF r = "ok"
            THEN /\ fase' = "retomada"
                 /\ token' = token + 1
                 /\ resultados' = << >>
                 /\ arquivo_resultado' = << >>
                 /\ numero_ciclo_retry' = 0
                 /\ colaboradores_retry' = << >>
                 /\ origem' = << >>
                 /\ resultados_retry' = << >>
                 /\ UNCHANGED <<motivo, entrada, viu401>>
            ELSE Parar(IF r = "credenciais_ausentes"
                       THEN "reautenticacao_credenciais_ausentes"
                       ELSE IF r = "falhou" THEN "reautenticacao_falhou"
                       ELSE "reautenticacao_excecao")

\* The first pass has returned: numero_retry = 0 on every outcome, then the
\* first report is written.
GravarInicial(rs, viu) ==
    /\ resultados' = rs
    /\ arquivo_resultado' = salvar_resultados_csv(rs)
    /\ fase' = "menu"
    /\ colaboradores_retry' = entrada
    /\ origem' = [k \in DOMAIN entrada |-> k]
    /\ resultados_retry' = rs
    /\ viu401' = viu
    /\ UNCHANGED <<motivo, entrada, token, numero_ciclo_retry>>

\* await client.processar_lote(...) inside processar_escalas, itself inside
\* the try of processar_escalas_com_retry_token
AposLoteInicial(lote, viu) ==
    IF lote.raised = "TokenExpiradoException" THEN Reautenticar
    ELSE GravarInicial(Marcar(lote.resultados, 0), viu)

\* processar_escalas up to the first report: configuration, file, first pass
\* over all the records, numero_retry = 0, save.
ProcessarEscalas ==
    /\ fase \in {"inicio", "retomada"}
    /\ \E amb \in Ambientes :
         IF amb # "ok"
         THEN /\ fase = "retomada" =>
                   amb \notin {"credenciais_ausentes", "autenticacao_falhou"}
              /\ Parar(amb)
         ELSE IF entrada = << >> THEN Parar("nenhum_colaborador")
         ELSE \E envios \in Escolhas(entrada, TabelaEnvios) :
                AposLoteInicial(processar_lote(entrada, envios),
                                \E k \in DOMAIN envios : envios[k].viu401)
    /\ UNCHANGED <<varsLote, varsEnvio, varsResto>>

\* The new outcomes replace the stored ones with the same key and the report
\* is overwritten.
AtualizarResultados(idx, regs, ciclo, novos, mesclado) ==
    /\ resultados' = mesclado
    /\ arquivo_resultado' = salvar_resultados_csv(mesclado)
    /\ numero_ciclo_retry' = ciclo
    /\ colaboradores_retry' = regs
    /\ origem' = idx
    /\ resultados_retry' = novos
    /\ UNCHANGED <<fase, motivo, entrada, token, viu401>>

\* novo['numero_retry'] = numero_ciclo_retry on every outcome of the batch
AposLoteRetry(idx, regs, ciclo, lote, novos) ==
    IF lote.raised = "TokenExpiradoException" THEN Reautenticar
    ELSE AtualizarResultados(idx, regs, ciclo, novos, Mesclar(resultados, novos))

\* the failed records are dispatched again
DespacharRetry(idx, regs, ciclo) ==
    \E envios \in Escolhas(regs, TabelaRetornos) :
        AposLoteRetry(idx, regs, ciclo, processar_lote(regs, envios),
                      Marcar(Gather(regs, envios), ciclo))

RetryCom_SemGuarda(sep, ciclo) ==
    DespacharRetry(sep.indices,
                   [k \in DOMAIN sep.erros |-> RegistroRetry(sep.erros[k])],
                   ciclo)

\* "if not erros_lista: break" comes before the prompt and the dispatch
RetryCom(sep, ciclo) ==
    /\ sep.erros # << >>
    /\ DespacharRetry(sep.indices,
                      [k \in DOMAIN sep.erros |-> RegistroRetry(sep.erros[k])],
                      ciclo)

\* One turn of the retry loop in which the user asks for another cycle:
\* rebuild the failed records, dispatch them, tag and merge the new outcomes,
\* overwrite the report.
CicloRetry ==
    /\ fase = "menu"
    /\ numero_ciclo_retry < MaxCiclos
    /\ RetryCom(separar_sucessos_e_erros(resultados), numero_ciclo_retry + 1)
    /\ UNCHANGED <<varsLote, varsEnvio, varsResto>>

\* The loop ends: nothing failed, or the user declines another cycle;
\* processar_escalas returns (token, num_concurrent).
Finalizar ==
    /\ fase = "menu"
    /\ fase' = "fim"
    /\ UNCHANGED <<motivo, entrada, token, resultados, arquivo_resultado,
                   numero_ciclo_retry, colaboradores_retry, origem,
                   resultados_retry, viu401>>
    /\ UNCHANGED <<varsLote, varsEnvio, varsResto>>

Next ==
    \/ ProcessarEscalas
    \/ CicloRetry
    \/ Finalizar

Spec == InitRun /\ [][Next]_vars

\* The steps before the first report come to an end, and the user eventually
\* declines another retry cycle.
FairSpec == Spec /\ WF_vars(ProcessarEscalas) /\ WF_vars(Finalizar)

\* ------------------------------------------------- claims about the run
NaoSucessos(rs) == {i \in DOMAIN rs : rs[i].status # "sucesso"}

\* C3 (as stated): when the first call of some record was answered 401, the
\* run reauthenticates and resubmits the whole input, so a run that reaches
\* its report after a 401 holds a fresh credential and an outcome for every
\* input record.
C3_ReautenticaApos401 ==
    (viu401 /\ fase \in {"menu", "fim"}) =>
        /\ token > 0
        /\ Len(resultados) = Len(entrada)

\* C4 (as stated): after a retry cycle, the outcome stored for every record
\* resubmitted in the cycle is an outcome of that cycle and carries the
\* cycle's number.
C4_RetrySobrescreve ==
    (fase = "menu" /\ numero_ciclo_retry >= 1) =>
        \A k \in DOMAIN origem :
            /\ resultados[origem[k]].numero_retry = numero_ciclo_retry
            /\ \E j \in DOMAIN resultados_retry :
                   resultados_retry[j] = resultados[origem[k]]

\* C5 (as stated): no step of the run removes, replaces or changes a stored
\* outcome whose status is success.
C5_SucessoPreservado ==
    [][\A i \in DOMAIN resultados :
          resultados[i].status = "sucesso" =>
              /\ i \in DOMAIN resultados'
              /\ resultados'[i] = resultados[i]]_vars

Completo ==
    /\ Len(resultados) = Len(entrada)
    /\ \A i \in DOMAIN entrada :
          /\ resultados[i].id_colaborador = entrada[i].id_colaborador
          /\ resultados[i].data.dia = entrada[i].data.dia
          /\ resultados[i].status \in {"sucesso", "erro", "timeout"}
    /\ arquivo_resultado = salvar_resultados_csv(resultados)

Terminado ==
    \/ fase = "fim" /\ Completo
    \/ fase = "fatal" /\ motivo \in MotivosFatais

\* C7: with every batch returning and every prompt answered, the run ends,
\* either normally with an outcome for every input record in the results and
\* in the report, or early with a stated reason.
C7_RunTermina == <>Terminado

\* C7 witness: a run that ended after a retry cycle over two input records,
\* one of them still failed.
C7_Witness ==
    /\ fase = "fim"
    /\ numero_ciclo_retry >= 1
    /\ Len(entrada) = 2
    /\ NaoSucessos(resultados) # {}
    /\ Completo

\* C10: a retry cycle dispatches one record for each stored outcome that is
\* not a success, rebuilt from that outcome, and none for a success; the
\* batch gives one new outcome per dispatched record.
C10_RetrySoNaoSucessos ==
    [][numero_ciclo_retry' = numero_ciclo_retry + 1 =>
          /\ Range(origem') = NaoSucessos(resultados)
          /\ \A k, l \in DOMAIN origem' : origem'[k] = origem'[l] => k = l
          /\ DOMAIN colaboradores_retry' = DOMAIN origem'
          /\ \A k \in DOMAIN origem' :
                colaboradores_retry'[k] = RegistroRetry(resultados[origem'[k]])
          /\ Len(resultados_retry') = Len(origem')]_vars

\* C10 witness: a cycle ran that resubmitted some of the records and left
\* out the others, which were successes.
C10_Witness ==
    /\ fase = "menu"
    /\ numero_ciclo_retry >= 1
    /\ Len(colaboradores_retry) >= 1
    /\ Len(colaboradores_retry) < Len(resultados)
    /\ \E i \in DOMAIN resultados :
          /\ i \notin Range(origem)
          /\ resultados[i].status = "sucesso"
          /\ resultados[i].numero_retry = 0

\* C11: while the results hold only successes, no step of the run starts a
\* cycle, produces a new outcome or changes the results or the report.
C11_SoSucessosNadaMuda ==
    [][(fase = "menu" /\ resultados # << >> /\ NaoSucessos(resultados) = {}) =>
          /\ numero_ciclo_retry' = numero_ciclo_retry
          /\ resultados_retry' = resultados_retry
          /\ colaboradores_retry' = colaboradores_retry
          /\ resultados' = resultados
          /\ arquivo_resultado' = arquivo_resultado]_vars

\* C11 witness: the run ended from a result set of successes only, reached
\* by a retry cycle, with the results of that cycle still in place.
C11_Witness ==
    /\ fase = "fim"
    /\ numero_ciclo_retry >= 1
    /\ resultados # << >>
    /\ NaoSucessos(resultados) = {}
    /\ arquivo_resultado = salvar_resultados_csv(resultados)

\* C12 (as stated): after the first pass and after every retry cycle the
\* report holds one row for each input record, in the record's place, and
\* the row of a record resubmitted in the last cycle is that cycle's outcome
\* for it.
C12_RelatorioUmaLinhaPorRegistro ==
    fase \in {"menu", "fim"} =>
        /\ Len(arquivo_resultado) = Len(entrada)
        /\ \A i \in DOMAIN arquivo_resultado :
              /\ arquivo_resultado[i].id_colaborador = entrada[i].id_colaborador
              /\ arquivo_resultado[i].data.dia = entrada[i].data.dia
        /\ numero_ciclo_retry >= 1 =>
              \A k \in DOMAIN origem :
                  \E j \in DOMAIN resultados_retry :
                      arquivo_resultado[origem[k]] = resultados_retry[j]

\* ------------------------------------------------------ the web application
NumeroRetryWeb == 1

Inverter(rs) == [i \in DOMAIN rs |-> rs[Len(rs) + 1 - i]]

\* processar_escalas_async: every task that returns appends its outcome as it
\* completes; a task that raises appends nothing.
processar_escalas_async(regs, envios, ordem) ==
    LET feitos == SelectSeq(envios, LAMBDA e : e.tipo = "ret")
        rs == [i \in DOMAIN feitos |-> feitos[i].res]
    IN IF ordem = "ida" THEN rs ELSE Inverter(rs)

\* the rows /api/retry reads back to submit again
ErrosDoArquivo(rows) == SelectSeq(rows, LAMBDA row : row.status # "sucesso")

\* todos_resultados of run_retry: the success rows of the file, then the new
\* outcomes, each with numero_retry = 1
TodosResultados(rows, novos, n) ==
    SelectSeq(rows, LAMBDA row : row.status = "sucesso") \o
        Marcar(novos, NumeroRetryWeb)

InitWeb ==
    /\ web_fase = "pronto"
    /\ web_entrada \in SeqsUpTo({r \in RegistrosRun : r.data.fmt = "br"}, MaxEntrada)
    /\ web_ordem \in {"ida", "volta"}
    /\ results_file = << >>
    /\ web_novos = << >>
    /\ web_retries = 0
    /\ web_resposta = 0
    /\ SrvParado
    /\ LoteParado /\ EnvioParado /\ RunParado /\ ConcParado /\ FmtParado
    /\ ConvParado /\ PayParado

\* run_processing after the first batch: the report is written
GravarWeb(rs) ==
    /\ results_file' = salvar_resultados_csv(rs)
    /\ web_novos' = salvar_resultados_csv(rs)
    /\ web_fase' = "resultado"
    /\ web_resposta' = 200
    /\ UNCHANGED <<web_entrada, web_ordem, web_retries>>

\* POST /api/process with a file loaded, a session authenticated and a valid
\* concurrency: run_processing reads the file and dispatches every record.
ProcessWeb ==
    /\ web_fase = "pronto"
    /\ IF web_entrada = << >>
       THEN /\ web_fase' = "sem_dados"
            /\ web_resposta' = 200
            /\ UNCHANGED <<web_entrada, web_ordem, results_file, web_novos,
                           web_retries>>
       ELSE \E envios \in Escolhas(web_entrada, TabelaRetornos) :
               GravarWeb(processar_escalas_async(web_entrada, envios, web_ordem))
    /\ UNCHANGED foraWeb

\* run_retry after its batch: the report is rewritten
GravarRetryWeb(novos) ==
    /\ results_file' = salvar_resultados_csv(
                          TodosResultados(results_file, novos, web_retries))
    /\ web_novos' = Marcar(novos, NumeroRetryWeb)
    /\ web_retries' = web_retries + 1
    /\ web_resposta' = 200
    /\ UNCHANGED <<web_fase, web_entrada, web_ordem>>

DespacharRetryWeb(regs) ==
    \E envios \in Escolhas(regs, TabelaRetornos) :
        GravarRetryWeb(processar_escalas_async(regs, envios, web_ordem))

\* "if not erros: return ... 400" comes before the thread is started
RetryWebCom(erros) ==
    IF erros = << >>
    THEN /\ web_resposta' = 400
         /\ UNCHANGED <<web_fase, web_entrada, web_ordem, results_file,
                        web_novos, web_retries>>
    ELSE DespacharRetryWeb([k \in DOMAIN erros |-> RegistroRetry(erros[k])])

\* POST /api/retry with a report on disk
RetryWeb ==
    /\ web_fase = "resultado"
    /\ web_retries < MaxCiclos
    /\ RetryWebCom(ErrosDoArquivo(results_file))
    /\ UNCHANGED foraWeb

NextWeb ==
    \/ ProcessWeb
    \/ RetryWeb

SpecWeb == InitWeb /\ [][NextWeb]_vars

\* C13 (as stated): the outcomes of the first pass carry retry number 0 and
\* the outcomes of the k-th retry carry retry number k; here for the web
\* application, k being the number of /api/retry batches run so far.
C13_NumeroRetrySequencial ==
    web_fase = "resultado" =>
        \A j \in DOMAIN web_novos : web_novos[j].numero_retry = web_retries

\* ------------------------------------------ the concurrency limit's checks
PedidosConcorrencia ==
    (ConcorrenciaMin - MaxExcesso)..(ConcorrenciaMax + MaxExcesso)

\* if 1 <= n <= 50
NaFaixa(n) == ConcorrenciaMin <= n /\ n <= ConcorrenciaMax

InitConc ==
    /\ conc_ponto \in {"console", "process", "retry"}
    /\ conc_pedido \in PedidosConcorrencia
    /\ conc_pc = "pedido"
    /\ conc_limite = 0
    /\ SrvParado
    /\ LoteParado /\ EnvioParado /\ RunParado /\ WebParado /\ FmtParado
    /\ ConvParado /\ PayParado

\* asyncio.Semaphore(n) inside processar_lote / processar_escalas_async:
\* a negative value raises ValueError before any task is created.
Despachar(n) ==
    /\ conc_limite' = n
    /\ conc_pc' = IF n < 0 THEN "falhou" ELSE "despachando"
    /\ UNCHANGED <<conc_ponto, conc_pedido>>

\* The prompt of obter_configuracao_usuario: a value outside the range is
\* refused and the question is asked again.
ObterConfiguracao ==
    /\ conc_ponto = "console" /\ conc_pc = "pedido"
    /\ IF NaFaixa(conc_pedido) THEN Despachar(conc_pedido)
       ELSE /\ conc_pedido' \in PedidosConcorrencia
            /\ UNCHANGED <<conc_ponto, conc_pc, conc_limite>>
    /\ UNCHANGED foraConc

\* POST /api/process: a value outside the range is answered 400.
ApiProcess ==
    /\ conc_ponto = "process" /\ conc_pc = "pedido"
    /\ IF NaFaixa(conc_pedido) THEN Despachar(conc_pedido)
       ELSE /\ conc_pc' = "rejeitado"
            /\ UNCHANGED <<conc_ponto, conc_pedido, conc_limite>>
    /\ UNCHANGED foraConc

\* POST /api/retry: the value goes to processar_escalas_async as it came.
ApiRetry ==
    /\ conc_ponto = "retry" /\ conc_pc = "pedido"
    /\ Despachar(conc_pedido)
    /\ UNCHANGED foraConc

NextConc ==
    \/ ObterConfiguracao
    \/ ApiProcess
    \/ ApiRetry

SpecConcorrencia == InitConc /\ [][NextConc]_vars

\* C17 (as stated): at every entry point a dispatch is started only with a
\* concurrency limit between 1 and 50, and a request outside that range
\* starts none.
C17_LimiteNaFaixa ==
    /\ conc_pc = "despachando" => (1 <= conc_limite /\ conc_limite <= 50)
    /\ (conc_pc # "pedido" /\ ~(1 <= conc_pedido /\ conc_pedido <= 50)) =>
           conc_pc \in {"rejeitado", "falhou"}

\* ------------------------------------------------------- format detection
\* The column names a header is made of, in the order they appear in a file.
ColunasOrdem == <<"id_colaborador", "nome", "matricula", "mat", "cod. escala",
                  "data", "codigo_horario", "01/11/2025", "02/11/2025">>

Headers ==
    {SelectSeq(ColunasOrdem, LAMBDA c : c \in S) : S \in SUBSET Range(ColunasOrdem)}

\* The substring and equality tests of the detectors, column by column,
\* on the upper-cased name: 'NOME' in col; 'MAT' in col and 'MATRICULA' not
\* in col; 'COD' in col and 'ESCALA' in col; 'ID_COLABORADOR' in col;
\* col == 'NOME'; col == 'DATA'; 'CODIGO' in col and 'HORARIO' in col.
ContemNOME(c) == c \in {"nome"}
ContemMATSemMATRICULA(c) == c \in {"mat"}
ContemCODeESCALA(c) == c \in {"cod. escala"}
ContemID(c) == c \in {"id_colaborador"}
IgualNOME(c) == c \in {"nome"}
IgualDATA(c) == c \in {"data"}
ContemCODIGOeHORARIO(c) == c \in {"codigo_horario"}
\* the tests of the web detector on the whole lower-cased first line, and its
\* test of a column for a date: '/' in parte and len(parte) == 10
LinhaContem_mat(h) == \E i \in DOMAIN h : h[i] \in {"mat", "matricula"}
LinhaContem_nome(h) == \E i \in DOMAIN h : h[i] \in {"nome"}
LinhaContem_escala(h) == \E i \in DOMAIN h : h[i] \in {"cod. escala"}
LinhaContem_id(h) == \E i \in DOMAIN h : h[i] \in {"id_colaborador"}
ParteData(c) == c \in {"01/11/2025", "02/11/2025"}

Algum(h, T(_)) == \E i \in DOMAIN h : T(h[i])

EhGrid(h) ==
    Algum(h, ContemNOME) /\ Algum(h, ContemMATSemMATRICULA) /\ Algum(h, ContemCODeESCALA)

EhApi(h) ==
    /\ Algum(h, ContemID) /\ Algum(h, IgualNOME)
    /\ Algum(h, IgualDATA) /\ Algum(h, ContemCODIGOeHORARIO)

\* detectar_formato_csv of envio_escala_api_corrigido.py
detectar_formato_csv(h) ==
    IF h = << >> THEN "desconhecido"
    ELSE IF EhGrid(h) THEN "grid"
    ELSE IF EhApi(h) THEN "api"
    ELSE "desconhecido"

\* detectar_formato_csv of app.py
detectar_formato_csv_web(h) ==
    IF LinhaContem_id(h) THEN "api"
    ELSE IF /\ LinhaContem_nome(h) /\ LinhaContem_mat(h)
            /\ \E i \in DOMAIN h : i > 3 /\ ParteData(h[i])
    THEN "grid"
    ELSE IF LinhaContem_escala(h) THEN "grid"
    ELSE "api"

InitFmt ==
    /\ fmt_header \in Headers
    /\ fmt_detector \in {"console", "web"}
    /\ fmt_pc = "chamando"
    /\ fmt_formato = ""
    /\ SrvParado
    /\ LoteParado /\ EnvioParado /\ RunParado /\ WebParado /\ ConcParado
    /\ ConvParado /\ PayParado

Detectar ==
    /\ fmt_pc = "chamando"
    /\ fmt_formato' = IF fmt_detector = "console"
                      THEN detectar_formato_csv(fmt_header)
                      ELSE detectar_formato_csv_web(fmt_header)
    /\ fmt_pc' = "retornou"
    /\ UNCHANGED <<fmt_header, fmt_detector>>
    /\ UNCHANGED foraFmt

NextFmt == Detectar

SpecFormato == InitFmt /\ [][NextFmt]_vars

\* the flat markers: identifier, name, date, schedule code; the grid markers:
\* name, matriculation, schedule-code-base
TemColunas(h, S) == S \subseteq Range(h)
MarcasFlat == {"id_colaborador", "nome", "data", "codigo_horario"}
MarcasGrid == {"nome", "mat", "cod. escala"}

\* C18 (as stated): a header that has both the flat and the grid markers, or
\* neither, is never classified as grid.
C18_AmbiguoNuncaGrid ==
    (fmt_pc = "retornou" /\
     (TemColunas(fmt_header, MarcasFlat) <=> TemColunas(fmt_header, MarcasGrid))) =>
        fmt_formato # "grid"

\* --------------------------------------------------------- grid conversion
\* str.strip() and str.upper() on the texts that occur in the files below
Strip(t) ==
    CASE t = "ESC1 " -> "ESC1"
      [] t = "02/10/2025 " -> "02/10/2025"
      [] t = " fr" -> "fr"
      [] OTHER -> t

Upper(t) ==
    CASE t = "fr" -> "FR"
      [] OTHER -> t

\* pd.to_numeric(errors='coerce').fillna(0).astype(int).astype(str)
CodigoNormalizado(t) ==
    CASE t = "101.0" -> "101"
      [] t = "201" -> "201"
      [] OTHER -> "0"

\* rows of horarios.csv: ID SCRIPT and CODIGO HORARIO as written in the file
LinhaHorario(id, cod) == [id_script |-> id, codigo |-> cod]
TabelaVazia == << >>
TabelaBase == <<LinhaHorario("ESC1", "101.0")>>
TabelaCompleta == <<LinhaHorario("ESC1", "101.0"), LinhaHorario("08:0016:00", "201")>>
TabelaDuplicada == <<LinhaHorario("ESC1 ", "abc"), LinhaHorario("ESC1", "101.0")>>
Tabelas == {TabelaVazia, TabelaBase, TabelaCompleta, TabelaDuplicada}
ArquivoSemColunas == [estado |-> "sem_colunas", linhas |-> << >>]
ArquivoOk(tab) == [estado |-> "ok", linhas |-> tab]
ArquivosHorarios ==
    {ArquivoAusente, ArquivoSemColunas} \cup {ArquivoOk(tab) : tab \in Tabelas}

\* pd.read_csv is called without dtype, so it infers the type of the
\* ID SCRIPT column: a column whose cells are all numbers or blank is read as
\* numbers (integers when no cell is blank, floats otherwise), any other
\* column as text with NaN for a blank cell; astype(str) then writes the
\* numbers and NaN back as text, and str.strip() trims it.
TextosNumericos == {"0800"}

ColunaNumerica(tab) ==
    /\ \A i \in DOMAIN tab : tab[i].id_script \in TextosNumericos \cup {""}
    /\ \E i \in DOMAIN tab : tab[i].id_script \in TextosNumericos

ColunaComBranco(tab) == \E i \in DOMAIN tab : tab[i].id_script = ""

NumeroComoTexto(t, comoFloat) ==
    CASE t = "0800" -> IF comoFloat THEN "800.0" ELSE "800"

IdScript(tab, i) ==
    IF tab[i].id_script = "" THEN "nan"
    ELSE IF ColunaNumerica(tab)
    THEN NumeroComoTexto(tab[i].id_script, ColunaComBranco(tab))
    ELSE Strip(tab[i].id_script)

\* the DataFrame load_horarios_mapping builds from a readable file
DataFrame(tab) ==
    [nulo |-> FALSE,
     linhas |-> [i \in DOMAIN tab |->
                   LinhaHorario(IdScript(tab, i), CodigoNormalizado(tab[i].codigo))]]

\* load_horarios_mapping: the table it returns, the global it leaves and the
\* number of times it read the file
load_horarios_mapping(cache, arquivo) ==
    IF ~cache.nulo THEN [df |-> cache, cache |-> cache, leituras |-> 0]
    ELSE IF arquivo.estado = "ausente"
    THEN [df |-> DfNone, cache |-> DfNone, leituras |-> 0]
    ELSE IF arquivo.estado = "sem_colunas"
    THEN [df |-> DfNone, cache |-> DfNone, leituras |-> 1]
    ELSE [df |-> DataFrame(arquivo.linhas), cache |-> DataFrame(arquivo.linhas),
          leituras |-> 1]

\* find_codigo_horario: the code of the first row whose ID SCRIPT is the key
find_codigo_horario(cod_escala, df) ==
    IF df.nulo \/ cod_escala = "None" THEN "None"
    ELSE LET chave == Strip(cod_escala)
             matches == {i \in DOMAIN df.linhas : df.linhas[i].id_script = chave}
         IN  IF matches = {} THEN "None"
             ELSE Strip(df.linhas[CHOOSE i \in matches :
                                     \A j \in matches : i <= j].codigo)

\* converter_formato_horario: hhmm-hhmm becomes hh:mmhh:mm, anything else None
converter_formato_horario_Nunca(cell_value) == "None"

converter_formato_horario(cell_value) ==
    IF cell_value = "0800-1600" THEN "08:0016:00" ELSE "None"

Contadores ==
    {"total_colaboradores", "total_registros", "vazio_busca", "fe_busca", "tr_busca",
     "fr_9999", "asterisco_ignorado", "formato_convertido",
     "formato_convertido_fallback", "codigo_nao_encontrado"}

StatsZero == [c \in Contadores |-> 0]

Soma_SemContar(stats, c) == stats

Soma(stats, c) ==
    IF c = "nenhum" THEN stats ELSE [stats EXCEPT ![c] = @ + 1]

\* the code of a day off (FR)
CodigoFolga_CodigoBase == "101"

CodigoFolga == "9999"

\* '**' in cell_value, on the cell texts of the model
ContemAsteriscos_SoIgual(cell_value) == cell_value = "**"

ContemAsteriscos(cell_value) == cell_value \in {"**", "FR**", "**0800-1600"}

\* the rules applied to one cell: the code it resolves to and the counter it
\* adds to
RegraCelula(cell_value, codigo_base, df) ==
    IF ContemAsteriscos(cell_value) THEN [codigo |-> "None", contador |-> "asterisco_ignorado"]
    ELSE IF cell_value = "FR" THEN [codigo |-> CodigoFolga, contador |-> "fr_9999"]
    ELSE IF converter_formato_horario(cell_value) # "None" THEN
        LET achado == find_codigo_horario(converter_formato_horario(cell_value), df)
        IN  IF achado # "None" THEN [codigo |-> achado, contador |-> "formato_convertido"]
            ELSE IF codigo_base # "None"
            THEN [codigo |-> codigo_base, contador |-> "formato_convertido_fallback"]
            ELSE [codigo |-> "None", contador |-> "codigo_nao_encontrado"]
    ELSE IF cell_value \in {"", "FE", "TR"} THEN
        IF codigo_base # "None"
        THEN [codigo |-> codigo_base,
              contador |-> CASE cell_value = "" -> "vazio_busca"
                             [] cell_value = "FE" -> "fe_busca"
                             [] cell_value = "TR" -> "tr_busca"]
        ELSE [codigo |-> "None", contador |-> "codigo_nao_encontrado"]
    ELSE IF codigo_base # "None" THEN [codigo |-> codigo_base, contador |-> "nenhum"]
    ELSE [codigo |-> "None", contador |-> "codigo_nao_encontrado"]

\* the header texts of the columns from index 3 on that the model knows
DatasGrid == <<"01/10/2025", "02/10/2025">>
TextosCabecalho ==
    {"01/10/2025", "02/10/2025 ", "01/10/25", "2025-10-01", "01-10-2025", "01-10-25",
     "01/10/25 Qua", "'01/10/2025'", "TOTAL"}

\* parse_date_flexible: quotes and a trailing day-of-week token are dropped,
\* then %d/%m/%Y, %d/%m/%y, %Y-%m-%d, %d-%m-%Y, %d-%m-%y are tried in turn;
\* the date, or None
parse_date_flexible_SoDiaMesAno(date_str) ==
    CASE date_str \in {"01/10/2025", "'01/10/2025'"} -> "2025-10-01"
      [] date_str \in {"02/10/2025", "02/10/2025 "} -> "2025-10-02"
      [] OTHER -> "None"

parse_date_flexible(date_str) ==
    CASE date_str \in {"01/10/2025", "01/10/25", "2025-10-01", "01-10-2025",
                       "01-10-25", "01/10/25 Qua", "'01/10/2025'"} -> "2025-10-01"
      [] date_str \in {"02/10/2025", "02/10/2025 "} -> "2025-10-02"
      [] OTHER -> "None"

\* len(header) < 4 fails the run: the header is NOME;MAT;COD. ESCALA and the
\* columns of grid.datas
CabecalhoOk(grid) == 3 + Len(grid.datas) >= 4

\* f"303-1-{mat}"
Mats == <<"1", "2", "3", "4">>
IdColaborador(mat) == Ids[CHOOSE i \in DOMAIN Mats : Mats[i] = mat]

\* the cell of a row under date column k; a row that ends before it reads as
\* the empty cell
Celula(linha, k) ==
    IF k <= Len(linha.celulas) THEN Upper(Strip(linha.celulas[k])) ELSE ""

\* the columns of the header are walked in order; a column whose text is
\* not a date is left out of date_columns, the others give their stripped
\* text to the records
RECURSIVE ProcessarDias(_, _, _, _, _, _)
ProcessarDias(linha, codigo_base, df, datas, k, acc) ==
    IF k > Len(datas) THEN acc
    ELSE IF parse_date_flexible(Strip(datas[k])) = "None"
    THEN ProcessarDias(linha, codigo_base, df, datas, k + 1, acc)
    ELSE LET r == RegraCelula(Celula(linha, k), codigo_base, df)
             contado == Soma(acc.stats, r.contador)
         IN  ProcessarDias(linha, codigo_base, df, datas, k + 1,
                 IF r.codigo # "None"
                 THEN [rows |-> Append(acc.rows,
                                   [id_colaborador |-> IdColaborador(linha.mat), nome |-> linha.nome,
                                    data |-> Strip(datas[k]), codigo_horario |-> r.codigo]),
                       stats |-> Soma(contado, "total_registros"),
                       warnings |-> acc.warnings]
                 ELSE [acc EXCEPT !.stats = contado])

RECURSIVE ProcessarLinhas(_, _, _, _, _)
ProcessarLinhas(linhas, df, datas, n, acc) ==
    IF n > Len(linhas) THEN acc
    ELSE LET linha == linhas[n]
         IN  IF linha.campos < 3 \/ linha.nome = "" \/ linha.mat = ""
             THEN ProcessarLinhas(linhas, df, datas, n + 1, acc)
             ELSE LET codigo_base == find_codigo_horario(Strip(linha.cod_escala), df)
                      contada == [acc EXCEPT
                                    !.stats = Soma(@, "total_colaboradores"),
                                    !.warnings = IF codigo_base = "None"
                                                 THEN Append(@, n) ELSE @]
                  IN  ProcessarLinhas(linhas, df, datas, n + 1,
                          ProcessarDias(linha, codigo_base, df, datas, 1, contada))

\* convert_dados_to_senior once the table is loaded: the rows written, the
\* counters and the returned (sucesso, total_registros)
Conversao(grid, df) ==
    IF df.nulo \/ ~CabecalhoOk(grid)
    THEN [rows |-> << >>, stats |-> SemStats, warnings |-> << >>,
          retorno |-> [feito |-> TRUE, sucesso |-> FALSE, total |-> 0]]
    ELSE LET r == ProcessarLinhas(grid.linhas, df, grid.datas, 1,
                      [rows |-> << >>, stats |-> StatsZero, warnings |-> << >>])
         IN  [rows |-> r.rows, stats |-> r.stats, warnings |-> r.warnings,
              retorno |-> [feito |-> TRUE, sucesso |-> TRUE,
                           total |-> r.stats["total_registros"]]]

\* The grid files: a header NOME;MAT;COD. ESCALA and the two date columns of
\* DatasGrid, or a header of fewer than 4 columns, and rows of these shapes.
CelulasGrid == {"", "FE", "TR", "FR", "**", "FR**", "**0800-1600", "0800-1600", "X"}

LinhaGrid(n, nome, cod, cels) ==
    [campos |-> n, nome |-> nome, mat |-> "", cod_escala |-> cod, celulas |-> cels]

LinhasGrid ==
    {LinhaGrid(2, "ANA", "", << >>), LinhaGrid(4, "", "ESC1", <<"">>)}
    \cup {LinhaGrid(3 + Len(cels), "ANA", cod, cels) :
             cod \in {"ESC1", "ESC9"},
             cels \in {<<c>> : c \in CelulasGrid} \cup {<<c, " fr">> : c \in CelulasGrid}}

ComMat(ls) ==
    [i \in DOMAIN ls |->
        [ls[i] EXCEPT !.mat = IF ls[i].campos < 3 THEN "" ELSE Mats[i]]]

Grids ==
    {[existe |-> TRUE, datas |-> DatasGrid, linhas |-> ComMat(ls)] :
        ls \in SeqsUpTo(LinhasGrid, MaxLinhas)}
    \cup {[existe |-> TRUE, datas |-> << >>, linhas |-> << >>]}

GridsCache ==
    {GridAusente,
     [existe |-> TRUE, datas |-> DatasGrid,
      linhas |-> ComMat(<<LinhaGrid(5, "ANA", "ESC1", <<"", "0800-1600">>)>>)]}

\* One call of convert_dados_to_senior, from the check of the input file to
\* the return.
Converter(grid) ==
    /\ conv_runs < MaxConversoes
    /\ conv_entrada' = grid
    /\ conv_disco' = arquivo_horarios
    /\ conv_runs' = conv_runs + 1
    /\ IF ~grid.existe
       THEN /\ conv_retorno' = [feito |-> TRUE, sucesso |-> FALSE, total |-> 0]
            /\ conv_df' = DfNone /\ conv_leituras' = 0
            /\ conv_saida' = << >> /\ conv_stats' = SemStats
            /\ UNCHANGED horarios_cache
       ELSE LET l == load_horarios_mapping(horarios_cache, arquivo_horarios)
                c == Conversao(grid, l.df)
            IN  /\ horarios_cache' = l.cache
                /\ conv_df' = l.df
                /\ conv_leituras' = l.leituras
                /\ conv_saida' = c.rows
                /\ conv_stats' = c.stats
                /\ conv_retorno' = c.retorno
    /\ UNCHANGED arquivo_horarios
    /\ UNCHANGED foraConv

\* a single conversion of any grid against any reference file
InitConversao ==
    /\ horarios_cache = DfNone
    /\ arquivo_horarios \in ArquivosHorarios
    /\ conv_entrada \in Grids
    /\ conv_disco = ArquivoAusente /\ conv_df = DfNone /\ conv_leituras = 0
    /\ conv_saida = << >> /\ conv_stats = SemStats /\ conv_retorno = RetornoNenhum
    /\ conv_runs = 0
    /\ SrvParado
    /\ LoteParado /\ EnvioParado /\ RunParado /\ WebParado /\ ConcParado
    /\ FmtParado /\ PayParado

ConverterEntrada ==
    /\ ~conv_retorno.feito
    /\ Converter(conv_entrada)

NextConversao == ConverterEntrada

SpecConversao == InitConversao /\ [][NextConversao]_vars

\* a process that converts several uploads while horarios.csv is edited
InitCache ==
    /\ horarios_cache = DfNone
    /\ arquivo_horarios \in ArquivosHorarios
    /\ conv_entrada = GridAusente
    /\ conv_disco = ArquivoAusente /\ conv_df = DfNone /\ conv_leituras = 0
    /\ conv_saida = << >> /\ conv_stats = SemStats /\ conv_retorno = RetornoNenhum
    /\ conv_runs = 0
    /\ SrvParado
    /\ LoteParado /\ EnvioParado /\ RunParado /\ WebParado /\ ConcParado
    /\ FmtParado /\ PayParado

ConverterUpload == \E g \in GridsCache : Converter(g)

EditarHorarios ==
    /\ \E a \in ArquivosHorarios \ {arquivo_horarios} : arquivo_horarios' = a
    /\ UNCHANGED <<horarios_cache, conv_entrada, conv_disco, conv_df, conv_leituras,
                   conv_saida, conv_stats, conv_retorno, conv_runs>>
    /\ UNCHANGED foraConv

NextCache == ConverterUpload \/ EditarHorarios

SpecCache == InitCache /\ [][NextCache]_vars

\* C19 (as stated): a run reads the reference file at most once, and a cache
\* never outlives its run, so every run that succeeds worked from the table
\* that was in the file when the run started.
C19_CacheDuraUmRun ==
    conv_retorno.sucesso =>
        /\ conv_leituras <= 1
        /\ conv_disco.estado = "ok"
        /\ conv_df = DataFrame(conv_disco.linhas)

\* The rows of the last grid that pass the checks of fields, name and
\* matriculation, and their cells.
LinhasValidas ==
    {n \in DOMAIN conv_entrada.linhas :
        LET l == conv_entrada.linhas[n]
        IN  l.campos >= 3 /\ l.nome # "" /\ l.mat # ""}

CelulasDoGrid == LinhasValidas \X DOMAIN DatasGrid

TemChave(chave) ==
    \E i \in DOMAIN conv_df.linhas : conv_df.linhas[i].id_script = chave

\* a row cannot be resolved: its schedule key is not in the table
LinhaSemCodigo(n) == ~TemChave(conv_entrada.linhas[n].cod_escala)

\* a cell cannot be resolved: it is neither skipped (**) nor fixed (FR), its
\* row has no base code, and it is not a time range the table knows
CelulaSemCodigo(n, k) ==
    LET c == Celula(conv_entrada.linhas[n], k)
    IN  /\ ~ContemAsteriscos(c) /\ c # "FR"
        /\ LinhaSemCodigo(n)
        /\ ~(c = "0800-1600" /\ TemChave("08:0016:00"))

TemRegistro(n, k) ==
    \E i \in DOMAIN conv_saida :
        /\ conv_saida[i].id_colaborador = Ids[n]
        /\ conv_saida[i].data = DatasGrid[k]

ConversaoFeita ==
    conv_retorno.feito /\ conv_entrada.datas = DatasGrid /\ ~conv_df.nulo

\* C20 (amended): a cell that cannot be resolved never aborts the conversion:
\* it yields no record and adds one to codigo_nao_encontrado, every other
\* cell that is not ** still yields its record, and the conversion returns
\* success.
C20_CelulaNaoAborta ==
    ConversaoFeita =>
        /\ conv_retorno.sucesso
        /\ \A ck \in CelulasDoGrid :
              IF CelulaSemCodigo(ck[1], ck[2]) THEN ~TemRegistro(ck[1], ck[2])
              ELSE ~ContemAsteriscos(Celula(conv_entrada.linhas[ck[1]], ck[2])) =>
                       TemRegistro(ck[1], ck[2])
        /\ conv_stats["codigo_nao_encontrado"] =
              Cardinality({ck \in CelulasDoGrid : CelulaSemCodigo(ck[1], ck[2])})
        /\ conv_retorno.total = Len(conv_saida)

\* a run in which one cell was not resolved and a later cell yielded a record
C20_Witness ==
    /\ ConversaoFeita
    /\ \E n \in LinhasValidas :
          CelulaSemCodigo(n, 1) /\ \E m \in LinhasValidas : m > n /\ TemRegistro(m, 1)

\* C20 (as stated): besides the above, a row that cannot be resolved yields
\* no record.
C20_LinhaOuCelulaNaoAborta ==
    ConversaoFeita =>
        /\ C20_CelulaNaoAborta
        /\ \A n \in LinhasValidas :
              LinhaSemCodigo(n) => \A k \in DOMAIN DatasGrid : ~TemRegistro(n, k)

\* the base code of a valid row of the last grid, and its cell under column k
CodigoBase(n) == find_codigo_horario(conv_entrada.linhas[n].cod_escala, conv_df)
CelulaDe(n, k) == Celula(conv_entrada.linhas[n], k)

RegistrosDe(n, k) ==
    {i \in DOMAIN conv_saida :
        /\ conv_saida[i].id_colaborador = Ids[n]
        /\ conv_saida[i].data = DatasGrid[k]}

\* a time-range cell whose key the table lacks, in a row whose base code
\* resolved
CelulaFallback(n, k) ==
    /\ CelulaDe(n, k) = "0800-1600"
    /\ ~TemChave("08:0016:00")
    /\ ~LinhaSemCodigo(n)

\* a cell of unknown text in a row with a base code: the one case in which a
\* cell adds to no branch counter
CelulaSemContador(n, k) ==
    /\ CelulaDe(n, k) \notin {"", "FE", "TR", "FR", "0800-1600"}
    /\ ~ContemAsteriscos(CelulaDe(n, k))
    /\ ~LinhaSemCodigo(n)

Ramos == Contadores \ {"total_colaboradores", "total_registros"}

RECURSIVE SomaDe(_, _)
SomaDe(stats, cs) ==
    IF cs = {} THEN 0
    ELSE LET c == CHOOSE x \in cs : TRUE IN stats[c] + SomaDe(stats, cs \ {c})

\* C21: each time-range cell whose key is missing, in a row whose base code
\* resolved, yields exactly one record, with the base code; it adds exactly
\* one to formato_convertido_fallback and nothing to any other branch counter
\* (the branch counters together count every cell at most once).
C21_FallbackUmRegistro ==
    ConversaoFeita =>
        /\ \A ck \in CelulasDoGrid :
              CelulaFallback(ck[1], ck[2]) =>
                  /\ Cardinality(RegistrosDe(ck[1], ck[2])) = 1
                  /\ \A i \in RegistrosDe(ck[1], ck[2]) :
                        conv_saida[i].codigo_horario = CodigoBase(ck[1])
        /\ conv_stats["formato_convertido_fallback"] =
              Cardinality({ck \in CelulasDoGrid : CelulaFallback(ck[1], ck[2])})
        /\ SomaDe(conv_stats, Ramos) =
              Cardinality(CelulasDoGrid) -
              Cardinality({ck \in CelulasDoGrid : CelulaSemContador(ck[1], ck[2])})

\* a run with a fallback cell in its second row
C21_Witness ==
    /\ ConversaoFeita
    /\ 2 \in LinhasValidas /\ CelulaFallback(2, 1)
    /\ conv_stats["formato_convertido_fallback"] >= 1

\* C22: a cell whose text contains ** (alone, with FR or with a time range)
\* yields no record for its employee and date, whatever the table holds and
\* whether or not the base code resolved.
C22_AsteriscoSemRegistro ==
    ConversaoFeita =>
        \A ck \in CelulasDoGrid :
            CelulaDe(ck[1], ck[2]) \in {"**", "FR**", "**0800-1600"} =>
                RegistrosDe(ck[1], ck[2]) = {}

\* a run in which a cell FR** of a row with a base code was skipped and
\* counted, while the cell after it yielded a record
C22_Witness ==
    /\ ConversaoFeita
    /\ \E n \in LinhasValidas :
          /\ CelulaDe(n, 1) = "FR**" /\ ~LinhaSemCodigo(n)
          /\ RegistrosDe(n, 2) # {}
    /\ conv_stats["asterisco_ignorado"] >= 1

\* C23: a cell that reads FR after trimming and upper-casing yields exactly
\* one record, with code 9999, whether or not the row's base key resolves.
C23_FolgaSempre9999 ==
    ConversaoFeita =>
        \A ck \in CelulasDoGrid :
            CelulaDe(ck[1], ck[2]) = "FR" =>
                /\ Cardinality(RegistrosDe(ck[1], ck[2])) = 1
                /\ \A i \in RegistrosDe(ck[1], ck[2]) :
                      conv_saida[i].codigo_horario = "9999"

\* a run in which a row without a base code had the cell " fr" and got its
\* record
C23_Witness ==
    /\ ConversaoFeita
    /\ \E n \in LinhasValidas :
          /\ LinhaSemCodigo(n)
          /\ Len(conv_entrada.linhas[n].celulas) >= 2
          /\ conv_entrada.linhas[n].celulas[2] = " fr"
          /\ \E i \in RegistrosDe(n, 2) : conv_saida[i].codigo_horario = "9999"

\* ------------------------------------------------- headers of a grid file
\* Grids whose header varies: any columns after the third, and rows whose
\* cells are all empty or hold one FR.
LinhasCabecalho ==
    {LinhaGrid(3, "ANA", "ESC1", << >>), LinhaGrid(3, "ANA", "ESC9", << >>),
     LinhaGrid(4, "ANA", "ESC1", <<"FR">>)}

GridsCabecalho ==
    {[existe |-> TRUE, datas |-> ds, linhas |-> ComMat(ls)] :
        ds \in SeqsUpTo(TextosCabecalho, MaxDatas),
        ls \in SeqsUpTo(LinhasCabecalho, MaxLinhas)}

InitCabecalho ==
    /\ horarios_cache = DfNone
    /\ arquivo_horarios \in {ArquivoOk(TabelaBase), ArquivoOk(TabelaCompleta)}
    /\ conv_entrada \in GridsCabecalho
    /\ conv_disco = ArquivoAusente /\ conv_df = DfNone /\ conv_leituras = 0
    /\ conv_saida = << >> /\ conv_stats = SemStats /\ conv_retorno = RetornoNenhum
    /\ conv_runs = 0
    /\ SrvParado
    /\ LoteParado /\ EnvioParado /\ RunParado /\ WebParado /\ ConcParado
    /\ FmtParado /\ PayParado

SpecCabecalho == InitCabecalho /\ [][NextConversao]_vars

\* the date of the payload, from the text of a record: a text with '/' that
\* splits in three parts becomes f"{p[2]}-{p[1].zfill(2)}-{p[0].zfill(2)}",
\* any other text is sent as it is
DataISOTexto(data_original) ==
    CASE data_original = "01/10/2025" -> "2025-10-01"
      [] data_original = "02/10/2025" -> "2025-10-02"
      [] data_original = "01/10/25" -> "25-10-01"
      [] data_original = "01/10/25 Qua" -> "25 Qua-10-01"
      [] data_original = "'01/10/2025'" -> "2025'-10-'01"
      [] OTHER -> data_original

\* the header columns that are dates, by their trimmed text
DatasReconhecidas ==
    SelectSeq([k \in DOMAIN conv_entrada.datas |-> Strip(conv_entrada.datas[k])],
              LAMBDA t : t # "TOTAL")

\* every valid row of the last grid has a base code and nothing but empty
\* cells
TudoVazioComBase ==
    \A n \in DOMAIN conv_entrada.linhas :
        /\ n \in LinhasValidas
        /\ TemChave(conv_entrada.linhas[n].cod_escala)
        /\ \A k \in DOMAIN conv_entrada.datas : CelulaDe(n, k) = ""

\* C24: a grid of N valid rows and M date columns, all cells empty and all
\* base keys resolved, yields exactly N x M records: for each row, one per
\* date column, with the (trimmed) text of the column header as its date and
\* the row's base code.
C24_NxMRegistros ==
    (conv_retorno.feito /\ conv_retorno.sucesso /\ TudoVazioComBase) =>
        LET N == Len(conv_entrada.linhas)
            M == Len(DatasReconhecidas)
        IN  /\ Len(conv_saida) = N * M
            /\ conv_retorno.total = N * M
            /\ \A i \in DOMAIN conv_saida :
                  LET n == ((i - 1) \div M) + 1
                      j == ((i - 1) % M) + 1
                  IN  /\ conv_saida[i].id_colaborador = Ids[n]
                      /\ conv_saida[i].data = DatasReconhecidas[j]
                      /\ conv_saida[i].codigo_horario = CodigoBase(n)

\* two rows and two date columns of different formats gave four records
C24_Witness ==
    /\ conv_retorno.feito /\ conv_retorno.sucesso /\ TudoVazioComBase
    /\ Len(conv_entrada.linhas) = 2
    /\ conv_entrada.datas = <<"02/10/2025 ", "2025-10-01">>
    /\ Len(conv_saida) = 4

\* C25 (as stated): every record of the conversion carries its date as
\* DD/MM/YYYY, and the dispatcher turns it into a valid YYYY-MM-DD date.
C25_DataDiaMesAno ==
    \A i \in DOMAIN conv_saida :
        /\ conv_saida[i].data \in {"01/10/2025", "02/10/2025"}
        /\ DataISOTexto(conv_saida[i].data) \in {"2025-10-01", "2025-10-02"}

\* -------------------------------------- the converted file and its readers
\* the header that DictWriter writes, with ';' between the fields
fieldnames_SemId == <<"nome", "data", "codigo_horario">>

fieldnames == <<"id_colaborador", "nome", "data", "codigo_horario">>

\* the header of a grid file of the model
CabecalhoGrid(grid) == <<"nome", "mat", "cod. escala">> \o grid.datas

\* detectar_separador_csv, from the commas and semicolons of the first line
detectar_separador_csv(virgulas, ponto_virgulas) ==
    IF ponto_virgulas > virgulas THEN ";" ELSE ","

\* linha[campo].strip() is empty
CampoEmBranco_OuZero(t) == Strip(t) \in {"", "0"}

CampoEmBranco(t) == Strip(t) = ""

\* ler_csv_colaboradores on a file written with ';' whose header has no
\* comma: the rows that have the four required fields non-blank; read with
\* ',' every row is one field wide and is dropped
ler_csv_colaboradores(header, rows) ==
    IF detectar_separador_csv(0, Len(header) - 1) # ";" THEN << >>
    ELSE IF ~({"id_colaborador", "nome", "data", "codigo_horario"} \subseteq Range(header))
    THEN << >>
    ELSE LET lidas == SelectSeq(rows, LAMBDA r :
                          /\ ~CampoEmBranco(r.id_colaborador) /\ ~CampoEmBranco(r.nome)
                          /\ ~CampoEmBranco(r.data) /\ ~CampoEmBranco(r.codigo_horario))
         IN  [i \in DOMAIN lidas |->
                [id_colaborador |-> Strip(lidas[i].id_colaborador),
                 nome |-> Strip(lidas[i].nome),
                 data |-> Strip(lidas[i].data),
                 codigo_horario |-> Strip(lidas[i].codigo_horario)]]

\* C26: when the detector calls the grid file grid and the conversion
\* succeeds, the same detector calls the converted file api.
C26_ConvertidoEhApi ==
    (/\ conv_retorno.feito /\ conv_retorno.sucesso
     /\ detectar_formato_csv(CabecalhoGrid(conv_entrada)) = "grid") =>
        detectar_formato_csv(fieldnames) = "api"

\* a grid file with two date columns was called grid and converted into
\* records
C26_Witness ==
    /\ conv_retorno.feito /\ conv_retorno.sucesso
    /\ detectar_formato_csv(CabecalhoGrid(conv_entrada)) = "grid"
    /\ Len(conv_entrada.datas) = 2
    /\ Len(conv_saida) >= 2

\* C27: the flat reader takes every row the conversion wrote: it reads back
\* as many records as the conversion reported, each as it was written.
C27_LeituraCompleta ==
    (conv_retorno.feito /\ conv_retorno.sucesso) =>
        /\ Len(ler_csv_colaboradores(fieldnames, conv_saida)) = conv_retorno.total
        /\ ler_csv_colaboradores(fieldnames, conv_saida) = conv_saida

\* a conversion whose records include the code 0 of a non-numeric table row
C27_Witness ==
    /\ conv_retorno.feito /\ conv_retorno.sucesso
    /\ Len(conv_saida) >= 2
    /\ \E i \in DOMAIN conv_saida : conv_saida[i].codigo_horario = "0"
    /\ Len(ler_csv_colaboradores(fieldnames, conv_saida)) = Len(conv_saida)

\* ------------------------------------------- identity numbers of a payload
\* id_colaborador.split('-') on the ids of the model
PartesId(id) ==
    CASE id = "303-1-29486" -> <<"303", "1", "29486">>
      [] id = "044-2" -> <<"044", "2">>
      [] id = "ABC--5" -> <<"ABC", "", "5">>
      [] id = "-1-5" -> <<"", "1", "5">>
      [] OTHER -> <<id>>

IdsPayload == {"303-1-29486", "044-2", "ABC--5", "-1-5", "9", ""}
TextosCsv == {"", " ", "77", "007", "7a", "²"}

\* str.strip() of a field of the record
StripCsv(t) == IF t = " " THEN "" ELSE t

\* str.isdigit(): true of decimal digits and of digit characters such as the
\* superscript two
IsDigit(t) == t \in {"77", "007", "303", "044", "1", "2", "5", "9", "29486", "²"}

\* int(t): the number, or ValueError for a digit character that is no
\* decimal digit
IntRaises(t) == t = "²"

IntDe(t) ==
    CASE t = "77" -> 77 [] t = "007" -> 7 [] t = "303" -> 303 [] t = "044" -> 44
      [] t = "1" -> 1 [] t = "2" -> 2 [] t = "5" -> 5 [] t = "9" -> 9
      [] t = "29486" -> 29486

EmpresaPadrao == 303
TipoPadrao == 1
CadastroPadrao == 1

\* the value of the record when it is not blank, else the i-th part of the
\* id when there is one and it is not empty, else the default text
Escolher(csv, partes, i, padrao) ==
    IF StripCsv(csv) # "" THEN StripCsv(csv)
    ELSE IF Len(partes) >= i /\ partes[i] # "" THEN partes[i]
    ELSE padrao

\* the three numbers of the payload: each int(x) if x.isdigit() else the
\* default, inside one try whose except sets all three to the defaults
NumerosDoPayload(id, csv) ==
    LET partes == PartesId(id)
        e == Escolher(csv.numero_empresa, partes, 1, "303")
        t == Escolher(csv.tipo_colaborador, partes, 2, "1")
        c == Escolher(csv.numero_cadastro, partes, 3, "1")
    IN  IF \E x \in {e, t, c} : IsDigit(x) /\ IntRaises(x)
        THEN TresNumeros(EmpresaPadrao, TipoPadrao, CadastroPadrao)
        ELSE TresNumeros(IF IsDigit(e) THEN IntDe(e) ELSE EmpresaPadrao,
                         IF IsDigit(t) THEN IntDe(t) ELSE TipoPadrao,
                         IF IsDigit(c) THEN IntDe(c) ELSE CadastroPadrao)

InitPayload ==
    /\ pay_id \in IdsPayload
    /\ pay_csv \in [numero_empresa : TextosCsv, tipo_colaborador : TextosCsv,
                     numero_cadastro : TextosCsv]
    /\ pay_pc = "montando"
    /\ pay_payload = TresNumeros(0, 0, 0)
    /\ SrvParado
    /\ LoteParado /\ EnvioParado /\ RunParado /\ WebParado /\ ConcParado
    /\ FmtParado /\ ConvParado

MontarPayload ==
    /\ pay_pc = "montando"
    /\ pay_payload' = NumerosDoPayload(pay_id, pay_csv)
    /\ pay_pc' = "montado"
    /\ UNCHANGED <<pay_id, pay_csv>>
    /\ UNCHANGED foraPay

\* the identity fields of the record a retry rebuilds from a failed outcome:
\* the console loop writes them as literals, /api/retry reads them with
\* row.get from a results file that has no such columns
CamposDoRetry(ponto) ==
    IF ponto = "console"
    THEN [numero_empresa |-> "", tipo_colaborador |-> "1", numero_cadastro |-> ""]
    ELSE [numero_empresa |-> "", tipo_colaborador |-> "1", numero_cadastro |-> ""]

\* a retry cycle submits the failed record again: same id_colaborador, the
\* identity fields of the rebuilt record
ReenviarPayload ==
    /\ pay_pc = "montado"
    /\ \E ponto \in {"console", "web"} :
          pay_payload' = NumerosDoPayload(pay_id, CamposDoRetry(ponto))
    /\ pay_pc' = "reenviado"
    /\ UNCHANGED <<pay_id, pay_csv>>
    /\ UNCHANGED foraPay

NextPayload == MontarPayload \/ ReenviarPayload

SpecPayload == InitPayload /\ [][NextPayload]_vars

\* what the rule of the claim gives for one field: the record's value when
\* not blank, else the id's segment when present and not empty, else the
\* default; and the default again when that value is not a decimal number
Decimais == {"77", "007", "303", "044", "1", "2", "5", "9", "29486"}

CampoEsperado(csv, i, padrao) ==
    LET partes == PartesId(pay_id)
        x == IF csv \notin {"", " "} THEN csv
             ELSE IF i <= Len(partes) /\ partes[i] # "" THEN partes[i]
             ELSE "padrao"
    IN  IF x \in Decimais THEN IntDe(x) ELSE padrao

PayloadEsperado ==
    TresNumeros(CampoEsperado(pay_csv.numero_empresa, 1, 303),
                CampoEsperado(pay_csv.tipo_colaborador, 2, 1),
                CampoEsperado(pay_csv.numero_cadastro, 3, 1))

\* C28 (as stated): each of the three numbers follows the rule field by
\* field, for every record.
C28_CampoACampo ==
    pay_pc = "montado" => pay_payload = PayloadEsperado

\* ------------------------------------------------ lookups in the table
\* One conversion of a grid of one row and one empty cell, so that the
\* record written, or its absence, shows what the lookup of the row's key
\* returned.
TabelaCaixa == <<LinhaHorario("esc1", "201"), LinhaHorario("ESC1", "101.0")>>
TabelaNumerica == <<LinhaHorario("0800", "101.0"), LinhaHorario("0800", "201")>>
TabelaComBranco == <<LinhaHorario("", "201"), LinhaHorario("ESC1", "101.0")>>
TabelasLookup ==
    {TabelaVazia, TabelaBase, TabelaCompleta, TabelaDuplicada, TabelaCaixa,
     TabelaNumerica, TabelaComBranco}

ChavesLookup == {"ESC1", "ESC1 ", "esc1", "ESC9", "0800", "08:0016:00", "nan"}

GridsLookup ==
    {[existe |-> TRUE, datas |-> ds,
      linhas |-> ComMat(<<LinhaGrid(4, "ANA", chave, <<cel>>)>>)] :
        ds \in {<<"01/10/2025">>, <<"2025-10-01">>, <<"TOTAL", "01/10/2025">>},
        chave \in ChavesLookup, cel \in {"", "FE", "TR", "X"}}

InitLookup ==
    /\ horarios_cache = DfNone
    /\ arquivo_horarios \in {ArquivoOk(tab) : tab \in TabelasLookup}
    /\ conv_entrada \in GridsLookup
    /\ conv_disco = ArquivoAusente /\ conv_df = DfNone /\ conv_leituras = 0
    /\ conv_saida = << >> /\ conv_stats = SemStats /\ conv_retorno = RetornoNenhum
    /\ conv_runs = 0
    /\ SrvParado
    /\ LoteParado /\ EnvioParado /\ RunParado /\ WebParado /\ ConcParado
    /\ FmtParado /\ PayParado

SpecLookup == InitLookup /\ [][NextConversao]_vars

\* the key of the only row of the grid, trimmed, and the rows of the file
\* whose trimmed key is that text
ChaveBuscada ==
    Strip(conv_entrada.linhas[1].cod_escala)

LinhasIguais ==
    {i \in DOMAIN conv_disco.linhas :
        Strip(conv_disco.linhas[i].id_script) = ChaveBuscada}

\* C29 (as stated): the lookup returns the code of the first row of the file
\* whose trimmed key is exactly the trimmed key asked for, and not-found only
\* when the file has no such row; the base-code record of the row shows it.
C29_PrimeiraLinhaIgual ==
    (conv_retorno.feito /\ conv_retorno.sucesso) =>
        IF LinhasIguais = {}
        THEN conv_saida = << >>
        ELSE /\ Len(conv_saida) = 1
             /\ conv_saida[1].codigo_horario =
                  CodigoNormalizado(
                      conv_disco.linhas[CHOOSE i \in LinhasIguais :
                                           \A j \in LinhasIguais : i <= j].codigo)

\* ------------------------------------------------ the admission slot
\* the tasks that take a slot, and those that give one back, in a step
Adquirem == {i \in Tarefas : pc[i] = "fila" /\ pc'[i] # "fila"}
Liberam == {i \in Tarefas : pc[i] # "fim" /\ pc'[i] = "fim"}

\* C30: a record takes one slot before its first attempt and keeps it through
\* its attempts and backoff sleeps until its final outcome; each step gives
\* back exactly one slot per record that reaches its outcome, whether by a
\* returned result or a raised exception, and none otherwise; a record past
\* its outcome never moves again, so once the batch has returned all L slots
\* are free.
C30_SlotAteODesfecho ==
    /\ [](/\ semaphore = max_concurrent - Cardinality(ComSlot)
          /\ \A i \in Tarefas : tentativa[i] >= 1 => pc[i] # "fila"
          /\ lote_pc = "retornado" => semaphore = max_concurrent)
    /\ [][/\ semaphore' = semaphore - Cardinality(Adquirem) + Cardinality(Liberam)
          /\ \A i \in Tarefas : pc[i] = "fim" => pc'[i] = "fim"
          /\ \A i \in Tarefas : pc[i] \in {"req", "dorme"} =>
                                    pc'[i] \in {"req", "dorme", "fim"}]_vars

\* C30 witness: a returned batch of more records than slots in which one
\* record succeeded, one went through every attempt and sleep to an error
\* and one to a timeout, with every slot free again.
C30_Witness ==
    /\ lote_pc = "retornado"
    /\ Len(colaboradores) > max_concurrent
    /\ semaphore = max_concurrent
    /\ \E i, j, k \in Tarefas :
          /\ retorno[i].tipo = "ret" /\ retorno[i].res.status = "sucesso"
          /\ tentativa[j] = max_retries /\ retorno[j].tipo = "ret"
          /\ retorno[j].res.status = "erro"
          /\ tentativa[k] = max_retries /\ retorno[k].tipo = "ret"
          /\ retorno[k].res.status = "timeout"

\* ------------------------------------------------ the two detectors
\* what the detector that was not called returns for the same header
OutroDetector ==
    IF fmt_detector = "console" THEN detectar_formato_csv_web(fmt_header)
    ELSE detectar_formato_csv(fmt_header)

\* C38 (as stated): for every header the console detector returns grid
\* exactly when the web detector returns grid.
C38_MesmaDecisaoDeGrid ==
    fmt_pc = "retornou" => ((fmt_formato = "grid") <=> (OutroDetector = "grid"))

\* ------------------------------------------------ the counters of a run
\* a cell the run skips: it holds ** or nothing resolves it
CelulaPulada(n, k) == ContemAsteriscos(CelulaDe(n, k)) \/ CelulaSemCodigo(n, k)

\* C34: for every processed row and every recognized date column either one
\* record is emitted, or one of the two skip counters is incremented by one,
\* never both; so at the end of a conversion total_registros +
\* asterisco_ignorado + codigo_nao_encontrado = total_colaboradores x the
\* number of recognized date columns.
C34_RegistroOuContador ==
    (conv_retorno.feito /\ conv_retorno.sucesso) =>
        /\ conv_stats["total_colaboradores"] = Cardinality(LinhasValidas)
        /\ conv_stats["total_registros"] = Len(conv_saida)
        /\ conv_stats["total_registros"] + conv_stats["asterisco_ignorado"]
              + conv_stats["codigo_nao_encontrado"]
             = conv_stats["total_colaboradores"] * Len(DatasReconhecidas)
        /\ conv_entrada.datas = DatasGrid =>
              /\ \A ck \in CelulasDoGrid :
                    Cardinality(RegistrosDe(ck[1], ck[2])) =
                        IF CelulaPulada(ck[1], ck[2]) THEN 0 ELSE 1
              /\ conv_stats["asterisco_ignorado"] =
                    Cardinality({ck \in CelulasDoGrid :
                                    ContemAsteriscos(CelulaDe(ck[1], ck[2]))})
              /\ conv_stats["codigo_nao_encontrado"] =
                    Cardinality({ck \in CelulasDoGrid :
                                    /\ ~ContemAsteriscos(CelulaDe(ck[1], ck[2]))
                                    /\ CelulaSemCodigo(ck[1], ck[2])})

\* C34 witness: a finished run with a ** cell, a cell nothing resolves and a
\* cell that gave a record.
C34_Witness ==
    /\ ConversaoFeita /\ conv_retorno.sucesso
    /\ \E a, b, c \in CelulasDoGrid :
          /\ ContemAsteriscos(CelulaDe(a[1], a[2]))
          /\ ~ContemAsteriscos(CelulaDe(b[1], b[2])) /\ CelulaSemCodigo(b[1], b[2])
          /\ Cardinality(RegistrosDe(c[1], c[2])) = 1

\* ------------------------------------------------ the table of a run
\* the table a run gets by reading the file its horarios_path names, as the
\* file was when the run started
TabelaDoDisco ==
    IF conv_disco.estado = "ok" THEN DataFrame(conv_disco.linhas) ELSE DfNone

\* C35 (as stated): every run that loads the reference table works from the
\* file at its horarios_path as it is when the run starts, never from the
\* table of an earlier run; and a load that fails leaves nothing cached.
C35_TabelaDoProprioRun ==
    (conv_retorno.feito /\ conv_entrada.existe) =>
        /\ conv_df = TabelaDoDisco
        /\ conv_df.nulo => horarios_cache.nulo

\* ------------------------------------------------ attempts and final status
\* attempt t of the call ended in one of the timeout classes
TentativaDeuTimeout(t) == ExcecaoDoCorpo(envio_rec, roteiro[t]) \in ExcecoesTimeout

\* C37: every outcome the call returns carries the number of attempts made,
\* between 1 and max_retries; an outcome that is not a success comes after
\* max_retries attempts and its status is timeout exactly when the last
\* attempt timed out and error otherwise, whatever ended the earlier ones.
C37_TentativasEUltimaDecide ==
    envio_pc = "retornou" =>
        LET n == envio_ret.iteracoes IN
        /\ envio_ret.tipo = "ret"
        /\ 1 <= envio_ret.res.tentativas /\ envio_ret.res.tentativas <= max_retries
        /\ envio_ret.res.tentativas = n
        /\ envio_ret.res.status # "sucesso" =>
              /\ n = max_retries
              /\ envio_ret.res.status =
                    IF TentativaDeuTimeout(n) THEN "timeout" ELSE "erro"

\* C37 witness: two timeouts and then an HTTP 500 end as an error after three
\* attempts, and an HTTP 500 and then two timeouts end as a timeout.
C37_Witness ==
    /\ envio_pc = "retornou"
    /\ FazRequisicao(envio_rec)
    /\ envio_ret.res.tentativas = max_retries
    /\ \/ /\ roteiro = <<Falha("TimeoutError"), Falha("TimeoutError"), Http(500)>>
          /\ envio_ret.res.status = "erro"
       \/ /\ roteiro = <<Http(500), Falha("TimeoutError"), Falha("TimeoutError")>>
          /\ envio_ret.res.status = "timeout"

\* ------------------------------------------------ the request of a retry
\* C33 (as stated): the request a retry cycle sends for a failed record
\* carries the same company, type and registration numbers as the one sent
\* for it in the first cycle.
C33_RetryMesmosNumeros ==
    pay_pc = "reenviado" => pay_payload = NumerosDoPayload(pay_id, pay_csv)

\* ------------------------------------------------ the web server's jobs
\* Requests to /api/process and /api/retry are served by the threads of the
\* server (async_mode='threading'); each job runs in a thread of its own,
\* started by the request handler.
ConcorrenciasPedidas == {-1, 0, 1, 51}

Pedido(ponto, n) ==
    [ponto |-> ponto, max_concurrent |-> n, pc |-> "chegou", resposta |-> 0,
     desfecho |-> ""]

InitServidor ==
    /\ app_state = [processing |-> FALSE, results_file |-> "nenhum"]
    /\ \E k \in 1..MaxPedidos :
          pedidos \in [1..k -> {Pedido(ponto, n) : ponto \in {"process", "retry"},
                                                  n \in ConcorrenciasPedidas}]
    /\ LoteParado /\ EnvioParado /\ RunParado /\ WebParado /\ ConcParado
    /\ FmtParado /\ ConvParado /\ PayParado

Responder_(r, codigo) ==
    /\ pedidos' = [pedidos EXCEPT ![r].pc = "respondido", ![r].resposta = codigo]
    /\ UNCHANGED app_state

\* threading.Thread(target=...).start() and the 200 answer
IniciarThread(r) ==
    /\ pedidos' = [pedidos EXCEPT ![r].pc = "thread", ![r].resposta = 200]
    /\ UNCHANGED app_state

\* process(): with a file loaded and the session authenticated, the handler
\* reads the flag, checks the concurrency and starts the thread.
AtenderProcess(r) ==
    /\ r \in DOMAIN pedidos
    /\ pedidos[r].ponto = "process" /\ pedidos[r].pc = "chegou"
    /\ IF app_state.processing THEN Responder_(r, 409)
       ELSE IF ~NaFaixa(pedidos[r].max_concurrent) THEN Responder_(r, 400)
       ELSE IniciarThread(r)
    /\ UNCHANGED foraSrv

\* retry_errors(): the handler reads the flag, looks for the results file and
\* its error rows, and starts the thread with max_concurrent as it came.
AtenderRetry(r) ==
    /\ r \in DOMAIN pedidos
    /\ pedidos[r].ponto = "retry" /\ pedidos[r].pc = "chegou"
    /\ IF app_state.processing THEN Responder_(r, 409)
       ELSE IF app_state.results_file # "com_erros" THEN Responder_(r, 400)
       ELSE IniciarThread(r)
    /\ UNCHANGED foraSrv

\* the first statement of run_processing and of run_retry
MarcarProcessing(r) ==
    /\ r \in DOMAIN pedidos
    /\ pedidos[r].pc = "thread"
    /\ app_state' = [app_state EXCEPT !.processing = TRUE]
    /\ pedidos' = [pedidos EXCEPT ![r].pc = "rodando"]
    /\ UNCHANGED foraSrv

\* asyncio.Semaphore(0): every enviar_programacao waits in acquire() and no
\* task ever completes
Trava(ponto, n) == ponto = "retry" /\ n = 0

\* the ways a job can end: results written, no records (process only), or an
\* exception; asyncio.Semaphore raises ValueError for a negative value
Desfechos(ponto, n) ==
    IF n < 0 THEN {"excecao"}
    ELSE {"ok_so_sucessos", "ok_com_erros", "excecao"} \cup
         (IF ponto = "process" THEN {"sem_registros"} ELSE {})

\* the job comes to its end and the finally clause clears the flag
TerminarJob(r) ==
    /\ r \in DOMAIN pedidos
    /\ pedidos[r].pc = "rodando"
    /\ ~Trava(pedidos[r].ponto, pedidos[r].max_concurrent)
    /\ \E d \in Desfechos(pedidos[r].ponto, pedidos[r].max_concurrent) :
          /\ pedidos' = [pedidos EXCEPT ![r].pc = "fim", ![r].desfecho = d]
          /\ app_state' =
                [processing |-> FALSE,
                 results_file |-> CASE d = "ok_so_sucessos" -> "so_sucessos"
                                    [] d = "ok_com_erros" -> "com_erros"
                                    [] OTHER -> app_state.results_file]
    /\ UNCHANGED foraSrv

NextServidor ==
    \/ \E r \in DOMAIN pedidos : AtenderProcess(r)
    \/ \E r \in DOMAIN pedidos : AtenderRetry(r)
    \/ \E r \in DOMAIN pedidos : MarcarProcessing(r)
    \/ \E r \in DOMAIN pedidos : TerminarJob(r)

SpecServidor == InitServidor /\ [][NextServidor]_vars

\* every request is served and every thread that can run does run
FairServidor ==
    SpecServidor /\ \A r \in 1..MaxPedidos :
        /\ WF_vars(AtenderProcess(r)) /\ WF_vars(AtenderRetry(r))
        /\ WF_vars(MarcarProcessing(r)) /\ WF_vars(TerminarJob(r))

\* the requests whose job has been started and has not ended
JobsAtivos == {r \in DOMAIN pedidos : pedidos[r].pc \in {"thread", "rodando"}}

\* C31 (as stated): at most one processing or retry job runs at any time,
\* whatever the interleaving of the requests.
C31_UmJobPorVez == Cardinality(JobsAtivos) <= 1

\* C32 (as stated): every job that was started eventually ends, and the
\* processing flag does not stay set.
C32_JobTerminaEFlagBaixa ==
    /\ \A r \in 1..MaxPedidos :
          (r \in JobsAtivos) ~> (r \in DOMAIN pedidos /\ pedidos[r].pc = "fim")
    /\ app_state.processing ~> ~app_state.processing

====
